---- MODULE Spec2Model ----
(***************************************************************************)
(* Model of the agentic retrieval-refinement controller of                 *)
(* backend/agentic_rag.py (class AgenticFitnessRAG) and of the pieces of   *)
(* backend/mcp_client_cleaned.py it calls during synthesis.                *)
(*                                                                         *)
(* Numbers: distances and relevance scores are integers in hundredths      *)
(* (0.5 is 50).  Means and weighted scores are exact rationals, kept as    *)
(* records [num, den] with den > 0 and compared by cross-multiplication.   *)
(* Text is a sequence of segments; a segment is a string constant of the   *)
(* source or a piece supplied by a collaborator.                           *)
(***************************************************************************)
EXTENDS Integers, Sequences, FiniteSets, TLC

VARIABLES
    vector_store,          \* self.vector_store: the search capability of this controller
    ai_client,             \* self.ai_client is not None
    max_iterations,        \* self.max_iterations
    reflection_mode,       \* self.reflection_mode
    successful_strategies, \* self.successful_strategies
    user_data,             \* argument user_data of generate_recommendation
    images,                \* argument images of generate_recommendation
    pc,                    \* position of generate_recommendation
    image_analysis,        \* local image_analysis
    user_profile,          \* local user_profile
    agent_plan,            \* local agent_plan
    iteration,             \* loop variable iteration
    current_strategy,      \* local current_strategy
    iteration_results,     \* local iteration_results
    search_results,        \* local search_results
    quality_assessment,    \* local quality_assessment
    rounds,                \* history: per round started, its strategy, calls and decision
    outcome,               \* what generate_recommendation handed to its caller
    recorded,              \* history: every entry ever recorded, per strategy key
    call,                  \* unit harness: the operation applied and its arguments
    ret,                   \* unit harness: what the operation returned
    enable_agentic,        \* get_fallback_fitness_recommendation: agentic path configured
    search_available,      \* FitnessMCPClient().search_client is not None
    fallback_pc,           \* position of get_fallback_fitness_recommendation
    thread,                \* the agentic worker thread
    result_queue,          \* result_queue of run_agentic_in_thread
    fallback_return,       \* what get_fallback_fitness_recommendation returned
    join_timed_out,        \* history: thread.join(timeout=60) returned by timeout
    alive_at_check         \* history: thread.is_alive() was true when tested

vars == <<vector_store, ai_client, max_iterations, reflection_mode,
          successful_strategies, user_data, images, pc, image_analysis,
          user_profile, agent_plan, iteration, current_strategy,
          iteration_results, search_results, quality_assessment, rounds,
          outcome, recorded, call, ret, enable_agentic, search_available,
          fallback_pc, thread, result_queue, fallback_return, join_timed_out,
          alive_at_check>>

----------------------------------------------------------------------------
(* Bounds of the model *)

\* max_iterations is configuration (AGENTIC_RAG_MAX_ITERATIONS); the runs
\* explored use every value 0..MaxIterations.
MaxIterations == 2

----------------------------------------------------------------------------
(* Generic helpers *)

Min(a, b) == IF a <= b THEN a ELSE b

Take(s, n) == SubSeq(s, 1, Min(n, Len(s)))

Range(s) == {s[i] : i \in 1..Len(s)}

\* exact rationals
Rat(n, d) == [num |-> n, den |-> d]
Zero == Rat(0, 1)
RatGeq(a, b) == a.num * b.den >= b.num * a.den
RatGt(a, b) == a.num * b.den > b.num * a.den
RatEq(a, b) == a.num * b.den = b.num * a.den

RECURSIVE Gcd(_, _)
Gcd(a, b) == IF b = 0 THEN a ELSE Gcd(b, a % b)

\* a rational in lowest terms
Lowest(r) == LET g == Gcd(r.num, r.den) IN Rat(r.num \div g, r.den \div g)

\* a value a dictionary does not hold / Python None
NoVal == "<none>"

----------------------------------------------------------------------------
(* Strategies, search hits and search results *)

\* class AgentStrategy: the .value strings
BROAD_SEARCH == "broad_search"
TARGETED_SEARCH == "targeted_search"
PROGRESSIVE_REFINEMENT == "progressive_refinement"
MULTI_ANGLE_APPROACH == "multi_angle_approach"
AgentStrategy == {BROAD_SEARCH, TARGETED_SEARCH, PROGRESSIVE_REFINEMENT,
                  MULTI_ANGLE_APPROACH}

\* One hit of vector_store.search_exercises: content, the optional distance
\* (has_distance FALSE: the key is absent or None), metadata type / body_part /
\* level (NoVal: absent), and the top-level muscle_groups / difficulty keys
\* that only the targeted search reads.
Hit(c, hd, d, ty, bp, lv) ==
    [content |-> c, has_distance |-> hd, distance |-> d, type |-> ty,
     body_part |-> bp, level |-> lv, muscle_groups |-> <<>>, difficulty |-> NoVal]

\* What one call of the search capability does: it raises, or it returns hits.
Raises == [raises |-> TRUE, hits |-> <<>>]
Returns(hs) == [raises |-> FALSE, hits |-> hs]

\* The knowledge bases a controller is given.  A store answers the i-th query
\* of a round with the same hits every time; what varies from call to call is
\* whether the call fails (raises) instead.
\*   "empty"    no match for any query
\*   "plain"    five hits per query, no distance and no metadata
\*   "cardio"   five hits per query at distance 0.5, all of type "cardio"
\*   "novice"   five hits per query at distance 0.5, of type "Beginner Strength"
\*   "rich"     close hits whose type, body part and level differ per query
\*   "rough"    a zero distance, a distance above 1 and a bare hit
Stores == {"empty", "plain", "cardio", "novice", "rich", "rough"}

Five(h) == <<h, h, h, h, h>>

RichTypes == <<"cardio", "strength", "hiit", "flexibility">>
RichParts == <<"legs", "chest", "back", "core", "arms", "shoulders", "glutes", "calves">>
RichLevels == <<"beginner", "intermediate", "advanced">>
RichNames == <<"Burpees", "Squat", "Row", "Plank", "Curl", "Press", "Bridge", "Calf raise">>
RichHit(i, j) ==
    LET k == ((2 * (i - 1) + (j - 1)) % 8) + 1
    IN Hit(RichNames[k], TRUE, 5, RichTypes[((i - 1) % 4) + 1], RichParts[k],
           RichLevels[((k - 1) % 3) + 1])

StoreAnswer(store, i) ==
    CASE store = "empty" -> <<>>
      [] store = "plain" -> Five(Hit("Walking", FALSE, 0, NoVal, NoVal, NoVal))
      [] store = "cardio" -> Five(Hit("Jogging", TRUE, 50, "cardio", "legs", "beginner"))
      [] store = "novice" ->
           Five(Hit("Wall push-up", TRUE, 50, "Beginner Strength", "chest", "beginner"))
      [] store = "rich" -> <<RichHit(i, 1), RichHit(i, 2), RichHit(i, 3)>>
      [] store = "rough" ->
           <<Hit("Sprint", TRUE, 0, "cardio", "legs", "advanced"),
             Hit("Stretch", TRUE, 150, "general", NoVal, "beginner"),
             Hit("Walking", FALSE, 0, NoVal, NoVal, NoVal)>>

\* dict.get(key, default)
Get(v, default) == IF v = NoVal THEN default ELSE v

\* relevance_score = 1.0 - (distance if distance else <default distance>):
\* an absent, None or zero distance is falsy and takes the default.
RelevanceOf(hit, default_distance) ==
    100 - (IF hit.has_distance /\ hit.distance # 0 THEN hit.distance
           ELSE default_distance)

SearchResult(c, rel, src, ty, tm, df) ==
    [content |-> c, relevance_score |-> rel, source |-> src,
     exercise_type |-> ty, target_muscles |-> tm, difficulty |-> df]

BroadResult(hit) ==
    SearchResult(hit.content, RelevanceOf(hit, 50), "chromadb",
                 Get(hit.type, "general"), <<Get(hit.body_part, "")>>,
                 Get(hit.level, "beginner"))

TargetedResult(hit) ==
    SearchResult(hit.content, RelevanceOf(hit, 60), "chromadb_targeted",
                 Get(hit.type, "targeted"), hit.muscle_groups,
                 Get(hit.difficulty, "intermediate"))

\* angle is [query, source]: source is f"chromadb_angle_{angle.replace(' ', '_')}"
MultiAngleResult(hit, angle) ==
    SearchResult(hit.content, RelevanceOf(hit, 55), angle.source,
                 Get(hit.type, "multi_angle"), <<Get(hit.body_part, "")>>,
                 Get(hit.level, "varied"))

----------------------------------------------------------------------------
(* SearchExecutor: the per-strategy query loops.  `responses` is what the   *)
(* search capability does on the 1st, 2nd, ... call of the round.  Each    *)
(* operator returns [results, trace]: the SearchResults of the round and   *)
(* the calls made, in order, as [query, raised].                           *)

\* search_terms of _execute_broad_search
BroadSearchTerms(goal) ==
    CASE goal = "weight_loss" -> <<"cardio", "fat burning", "HIIT", "weight loss exercises">>
      [] goal = "muscle_gain" -> <<"strength training", "muscle building", "hypertrophy", "resistance">>
      [] goal = "cardio" -> <<"endurance", "cardiovascular", "aerobic", "cardio training">>
      [] goal = "strength" -> <<"strength", "powerlifting", "resistance training", "strong">>
      [] OTHER -> <<"fitness", "exercise", "workout", "training">>

Angle(q, src) == [query |-> q, source |-> src]

\* angle_searches of _execute_multi_angle_search
AngleSearches(goal) ==
    CASE goal = "weight_loss" ->
           <<Angle("beginner weight loss", "chromadb_angle_beginner_weight_loss"),
             Angle("advanced fat burning", "chromadb_angle_advanced_fat_burning"),
             Angle("cardio for weight loss", "chromadb_angle_cardio_for_weight_loss")>>
      [] goal = "muscle_gain" ->
           <<Angle("beginner muscle building", "chromadb_angle_beginner_muscle_building"),
             Angle("advanced hypertrophy", "chromadb_angle_advanced_hypertrophy"),
             Angle("strength for muscle", "chromadb_angle_strength_for_muscle")>>
      [] goal = "cardio" ->
           <<Angle("running cardio", "chromadb_angle_running_cardio"),
             Angle("HIIT cardio", "chromadb_angle_HIIT_cardio"),
             Angle("low intensity cardio", "chromadb_angle_low_intensity_cardio")>>
      [] goal = "strength" ->
           <<Angle("powerlifting", "chromadb_angle_powerlifting"),
             Angle("bodyweight strength", "chromadb_angle_bodyweight_strength"),
             Angle("dumbbell strength", "chromadb_angle_dumbbell_strength")>>
      [] OTHER ->
           <<Angle("beginner fitness", "chromadb_angle_beginner_fitness"),
             Angle("intermediate fitness", "chromadb_angle_intermediate_fitness"),
             Angle("advanced fitness", "chromadb_angle_advanced_fitness")>>

\* current_sub_goal.replace("find_", "").replace("identify_", "")
\*   .replace("locate_", "").replace("discover_", "").replace("_", " ")
SubGoalSearchTerm(sub_goal) ==
    CASE sub_goal = "find_high_intensity_cardio" -> "high intensity cardio"
      [] sub_goal = "identify_calorie_burning_exercises" -> "calorie burning exercises"
      [] sub_goal = "locate_nutrition_guidance" -> "nutrition guidance"
      [] sub_goal = "discover_progression_strategies" -> "progression strategies"
      [] sub_goal = "find_progressive_strength_exercises" -> "progressive strength exercises"
      [] sub_goal = "identify_muscle_building_protocols" -> "muscle building protocols"
      [] sub_goal = "locate_nutrition_for_growth" -> "nutrition for growth"
      [] sub_goal = "discover_recovery_strategies" -> "recovery strategies"
      [] sub_goal = "find_endurance_training_methods" -> "endurance training methods"
      [] sub_goal = "identify_cardio_progressions" -> "cardio progressions"
      [] sub_goal = "locate_heart_rate_guidance" -> "heart rate guidance"
      [] sub_goal = "discover_training_variations" -> "training variations"
      [] sub_goal = "find_foundational_exercises" -> "foundational exercises"
      [] sub_goal = "identify_balanced_routines" -> "balanced routines"
      [] sub_goal = "locate_beginner_progressions" -> "beginner progressions"
      [] sub_goal = "discover_safety_guidelines" -> "safety guidelines"
      [] sub_goal = "address_form_corrections" -> "address form corrections"
      [] sub_goal = "utilize_available_equipment" -> "utilize available equipment"
      [] sub_goal = "target_specific_muscle_groups" -> "target specific muscle groups"
      [] sub_goal = "address_postural_corrections" -> "address postural corrections"
      [] sub_goal = "adjust_intensity_for_level" -> "adjust intensity for level"
      [] sub_goal = "optimize_available_equipment" -> "optimize available equipment"
      [] sub_goal = "improve_exercise_form" -> "improve exercise form"
      [] sub_goal = "address_mobility_limitations" -> "address mobility limitations"
      [] sub_goal = "adapt_for_equipment_constraints" -> "adapt for equipment constraints"

Call(q, r) == [query |-> q, raised |-> r]
Round(rs, tr) == [results |-> rs, trace |-> tr]

\* [f(h) for h in hits], in order
RECURSIVE BroadResults(_)
BroadResults(hits) ==
    IF hits = <<>> THEN <<>>
    ELSE <<BroadResult(Head(hits))>> \o BroadResults(Tail(hits))

RECURSIVE TargetedResults(_)
TargetedResults(hits) ==
    IF hits = <<>> THEN <<>>
    ELSE <<TargetedResult(Head(hits))>> \o TargetedResults(Tail(hits))

RECURSIVE MultiAngleResults(_, _)
MultiAngleResults(hits, angle) ==
    IF hits = <<>> THEN <<>>
    ELSE <<MultiAngleResult(Head(hits), angle)>> \o MultiAngleResults(Tail(hits), angle)

\* A broad search whose handler is around the loop instead of inside it: the
\* first raising call ends the round with what was collected so far.
RECURSIVE BroadLoopAborting(_, _, _, _)
BroadLoopAborting(terms, responses, i, acc) ==
    IF i > Len(terms) THEN acc
    ELSE LET r == responses[i]
             tr == Append(acc.trace, Call(terms[i], r.raises))
         IN IF r.raises THEN Round(acc.results, tr)
            ELSE BroadLoopAborting(terms, responses, i + 1,
                     Round(acc.results \o BroadResults(Take(r.hits, 2)), tr))

\* One pass of `for term in search_terms: try: ... except Exception: log`:
\* the try is inside the loop, so a raising call is logged and the loop goes
\* on with the next term.
RECURSIVE BroadLoop(_, _, _, _)
BroadLoop(terms, responses, i, acc) ==
    IF i > Len(terms) THEN acc
    ELSE LET r == responses[i]
             tr == Append(acc.trace, Call(terms[i], r.raises))
         IN IF r.raises
            THEN BroadLoop(terms, responses, i + 1, Round(acc.results, tr))
            ELSE BroadLoop(terms, responses, i + 1,
                           Round(acc.results \o BroadResults(Take(r.hits, 2)), tr))

ExecuteBroadSearch(plan, responses) ==
    BroadLoop(BroadSearchTerms(plan.primary_goal), responses, 1, Round(<<>>, <<>>))

RECURSIVE MultiAngleLoop(_, _, _, _)
MultiAngleLoop(angles, responses, i, acc) ==
    IF i > Len(angles) THEN acc
    ELSE LET r == responses[i]
             tr == Append(acc.trace, Call(angles[i].query, r.raises))
         IN IF r.raises
            THEN MultiAngleLoop(angles, responses, i + 1, Round(acc.results, tr))
            ELSE MultiAngleLoop(angles, responses, i + 1,
                     Round(acc.results \o MultiAngleResults(Take(r.hits, 2), angles[i]), tr))

ExecuteMultiAngleSearch(plan, responses) ==
    MultiAngleLoop(AngleSearches(plan.primary_goal), responses, 1, Round(<<>>, <<>>))

\* _execute_targeted_search: one call for the sub-goal at index `it` (0-based),
\* no call at all when `it` is past the end of sub_goals.
ExecuteTargetedSearch(plan, it, responses) ==
    IF it < Len(plan.sub_goals)
    THEN LET term == SubGoalSearchTerm(plan.sub_goals[it + 1])
             r == responses[1]
         IN IF r.raises THEN Round(<<>>, <<Call(term, TRUE)>>)
            ELSE Round(TargetedResults(Take(r.hits, 3)), <<Call(term, FALSE)>>)
    ELSE Round(<<>>, <<>>)

\* _execute_progressive_refinement
ExecuteProgressiveRefinement(plan, responses) ==
    ExecuteTargetedSearch(plan, 0, responses)

----------------------------------------------------------------------------
(* QualityAssessor, StrategySelector, StoppingPolicy, AgentMemory *)

RECURSIVE SumRelevance(_)
SumRelevance(results) ==
    IF results = <<>> THEN 0
    ELSE Head(results).relevance_score + SumRelevance(Tail(results))

ExerciseTypes(results) == {results[i].exercise_type : i \in 1..Len(results)}
Muscles(results) == UNION {Range(results[i].target_muscles) : i \in 1..Len(results)}
Difficulties(results) == {results[i].difficulty : i \in 1..Len(results)}

\* A threshold of 1.0 in place of the plan's relevance_threshold.
ThresholdOfOne(plan) == Rat(1, 1)

\* plan.success_criteria.get("relevance_threshold", 0.7)
RelevanceThreshold(plan) == Rat(plan.success_criteria.relevance_threshold, 100)

\* An assessor without the early return for an empty round: relevance is 0,
\* coverage and diversity are still taken from the cumulative results.
AssessWithoutEmptyReturn(new_results, plan, all_results) ==
    LET n == IF new_results = <<>> THEN 1 ELSE Len(new_results)
        g == Len(plan.sub_goals)
        s == SumRelevance(new_results)
        both == all_results \o new_results
        cov == Min(Cardinality(ExerciseTypes(both)), g)
        div == Min(Cardinality(Muscles(both)) + Cardinality(Difficulties(both)), 10)
        overall == Rat(4 * s * g + 300 * n * cov + 30 * n * g * div, 1000 * n * g)
    IN [overall_score |-> overall,
        relevance |-> Rat(s, 100 * n),
        coverage |-> Rat(cov, g),
        diversity |-> Rat(div, 10),
        has_meets |-> TRUE,
        meets_criteria |-> RatGeq(overall, RelevanceThreshold(plan))]

\* An assessor whose relevance is the mean over the cumulative and the new
\* results together.
AssessOverCumulative(new_results, plan, all_results) ==
    IF new_results = <<>>
    THEN [overall_score |-> Zero, relevance |-> Zero, coverage |-> Zero,
          diversity |-> Zero, has_meets |-> FALSE, meets_criteria |-> FALSE]
    ELSE LET both == all_results \o new_results
             n == Len(both)
             g == Len(plan.sub_goals)
             s == SumRelevance(both)
             cov == Min(Cardinality(ExerciseTypes(both)), g)
             div == Min(Cardinality(Muscles(both)) + Cardinality(Difficulties(both)), 10)
             overall == Rat(4 * s * g + 300 * n * cov + 30 * n * g * div, 1000 * n * g)
         IN [overall_score |-> overall,
             relevance |-> Rat(s, 100 * n),
             coverage |-> Rat(cov, g),
             diversity |-> Rat(div, 10),
             has_meets |-> TRUE,
             meets_criteria |-> RatGeq(overall, RelevanceThreshold(plan))]

\* _assess_result_quality.  The dictionary returned for an empty round has no
\* "meets_criteria" key (has_meets FALSE).
AssessResultQuality(new_results, plan, all_results) ==
    IF new_results = <<>>
    THEN [overall_score |-> Zero, relevance |-> Zero, coverage |-> Zero,
          diversity |-> Zero, has_meets |-> FALSE, meets_criteria |-> FALSE]
    ELSE LET n == Len(new_results)
             g == Len(plan.sub_goals)
             s == SumRelevance(new_results)
             both == all_results \o new_results
             cov == Min(Cardinality(ExerciseTypes(both)), g)
             div == Min(Cardinality(Muscles(both)) + Cardinality(Difficulties(both)), 10)
             overall == Rat(4 * s * g + 300 * n * cov + 30 * n * g * div, 1000 * n * g)
         IN [overall_score |-> overall,
             relevance |-> Rat(s, 100 * n),
             coverage |-> Rat(cov, g),
             diversity |-> Rat(div, 10),
             has_meets |-> TRUE,
             meets_criteria |-> RatGeq(overall, RelevanceThreshold(plan))]

\* which of general_terms occur in exercise_type.lower(), for the exercise
\* types of the model
GeneralTermsIn(exercise_type) ==
    CASE exercise_type = "general" -> {"general"}
      [] exercise_type = "Beginner Strength" -> {"beginner"}
      [] OTHER -> {}

\* _results_lack_specificity: general_count > len(results) * 0.7
ResultsLackSpecificity(results) ==
    LET general_count ==
            Cardinality({i \in 1..Len(results) :
                           GeneralTermsIn(results[i].exercise_type) # {}})
    IN 10 * general_count > 7 * Len(results)

\* A refinement test whose lower bound is 0.5 instead of 0.4.
ResultsNeedRefinementAbove5(results) ==
    LET avg_score == IF results # <<>>
                     THEN Rat(SumRelevance(results), 100 * Len(results))
                     ELSE Zero
    IN RatGt(avg_score, Rat(5, 10)) /\ RatGt(Rat(7, 10), avg_score)

\* A refinement test that includes both thresholds.
ResultsNeedRefinementInclusive(results) ==
    LET avg_score == IF results # <<>>
                     THEN Rat(SumRelevance(results), 100 * Len(results))
                     ELSE Zero
    IN RatGeq(avg_score, Rat(4, 10)) /\ RatGeq(Rat(7, 10), avg_score)

\* _results_need_refinement: 0.4 < avg_score < 0.7, avg_score 0 for no results
ResultsNeedRefinement(results) ==
    LET avg_score == IF results # <<>>
                     THEN Rat(SumRelevance(results), 100 * Len(results))
                     ELSE Zero
    IN RatGt(avg_score, Rat(4, 10)) /\ RatGt(Rat(7, 10), avg_score)

\* A selector that looks at the number of results before it looks at the
\* iteration index.
SelectSparseFirst(plan, current_results, it) ==
    IF Len(current_results) < 3 THEN MULTI_ANGLE_APPROACH
    ELSE IF it = 0 THEN BROAD_SEARCH
    ELSE IF ResultsLackSpecificity(current_results) THEN TARGETED_SEARCH
    ELSE IF ResultsNeedRefinement(current_results) THEN PROGRESSIVE_REFINEMENT
    ELSE plan.search_strategies[(it % Len(plan.search_strategies)) + 1]

\* A selector that, after the first round, prefers the strategy the agent
\* memory was first given an entry for.
SelectFromMemory(plan, current_results, it) ==
    IF it = 0 THEN BROAD_SEARCH
    ELSE IF successful_strategies.order # <<>> THEN successful_strategies.order[1]
    ELSE IF Len(current_results) < 3 THEN MULTI_ANGLE_APPROACH
    ELSE IF ResultsLackSpecificity(current_results) THEN TARGETED_SEARCH
    ELSE IF ResultsNeedRefinement(current_results) THEN PROGRESSIVE_REFINEMENT
    ELSE plan.search_strategies[(it % Len(plan.search_strategies)) + 1]

\* _select_optimal_strategy
SelectOptimalStrategy(plan, current_results, it) ==
    IF it = 0 THEN BROAD_SEARCH
    ELSE IF Len(current_results) < 3 THEN MULTI_ANGLE_APPROACH
    ELSE IF ResultsLackSpecificity(current_results) THEN TARGETED_SEARCH
    ELSE IF ResultsNeedRefinement(current_results) THEN PROGRESSIVE_REFINEMENT
    ELSE plan.search_strategies[(it % Len(plan.search_strategies)) + 1]

\* A stopping policy whose high-quality rule is strict (overall_score > 0.9).
ShouldStopStrictly(qa, plan, it, max_it) ==
    IF qa.has_meets /\ qa.meets_criteria THEN TRUE
    ELSE IF it >= max_it - 1 THEN TRUE
    ELSE IF RatGt(qa.overall_score, Rat(9, 10)) THEN TRUE
    ELSE FALSE

\* A stopping policy that also gives up after a round that scored nothing.
ShouldStopOnNothing(qa, plan, it, max_it) ==
    IF qa.has_meets /\ qa.meets_criteria THEN TRUE
    ELSE IF it >= max_it - 1 THEN TRUE
    ELSE IF RatGeq(qa.overall_score, Rat(9, 10)) THEN TRUE
    ELSE IF RatEq(qa.overall_score, Zero) THEN TRUE
    ELSE FALSE

\* _should_stop_searching
ShouldStopSearching(qa, plan, it, max_it) ==
    IF qa.has_meets /\ qa.meets_criteria THEN TRUE
    ELSE IF it >= max_it - 1 THEN TRUE
    ELSE IF RatGeq(qa.overall_score, Rat(9, 10)) THEN TRUE
    ELSE FALSE

\* the sliding window of _update_agent_memory
MemoryWindow == 10

MemoryEntry(results, quality) ==
    [quality_score |-> quality.overall_score, result_count |-> Len(results),
     timestamp |-> "current"]

\* s[-n:]
LastN(s, n) == IF Len(s) > n THEN SubSeq(s, Len(s) - n + 1, Len(s)) ELSE s

\* A memory that truncates with [:10] instead of [-10:]: it keeps the oldest
\* entries and drops the new one.
UpdateKeepingOldest(memory, strategy, results, quality) ==
    LET appended == Append(memory.lists[strategy], MemoryEntry(results, quality))
    IN [order |-> IF strategy \in Range(memory.order) THEN memory.order
                  ELSE Append(memory.order, strategy),
        lists |-> [memory.lists EXCEPT ![strategy] =
                      IF Len(appended) > MemoryWindow
                      THEN Take(appended, MemoryWindow)
                      ELSE appended]]

\* A memory that files every entry under the multi-angle key.
UpdateUnderOneKey(memory, strategy, results, quality) ==
    LET appended == Append(memory.lists[MULTI_ANGLE_APPROACH],
                           MemoryEntry(results, quality))
    IN [order |-> IF MULTI_ANGLE_APPROACH \in Range(memory.order) THEN memory.order
                  ELSE Append(memory.order, MULTI_ANGLE_APPROACH),
        lists |-> [memory.lists EXCEPT ![MULTI_ANGLE_APPROACH] =
                      LastN(appended, MemoryWindow)]]

\* _update_agent_memory.  The dictionary is [order, lists]: `order` its keys
\* in insertion order, `lists` the list of each key (empty for a key that is
\* not in the dictionary).
UpdateAgentMemory(memory, strategy, results, quality) ==
    LET appended == Append(memory.lists[strategy], MemoryEntry(results, quality))
    IN [order |-> IF strategy \in Range(memory.order) THEN memory.order
                  ELSE Append(memory.order, strategy),
        lists |-> [memory.lists EXCEPT ![strategy] =
                      IF Len(appended) > MemoryWindow
                      THEN LastN(appended, MemoryWindow)
                      ELSE appended]]

EmptyMemory == [order |-> <<>>, lists |-> [k \in AgentStrategy |-> <<>>]]

----------------------------------------------------------------------------
(* User input, ProfileAnalyzer, Planner *)

\* A value of the user_data dictionary: the key is absent ("missing"), or it
\* holds None ("none"), a number ("int", n), a string that int()/float() parse
\* ("numstr", n), or any other string ("str", s).  `terms` are the words of
\* the subsystem's keyword lists that occur in the lower-cased string.
Val(k, n, s, t) == [k |-> k, n |-> n, s |-> s, terms |-> t]
Missing == Val("missing", 0, "", {})
PyNone == Val("none", 0, "", {})
PyInt(n) == Val("int", n, "", {})
PyNumStr(n) == Val("numstr", n, "", {})
PyStr(s) == Val("str", 0, s, {})
PyText(s, t) == Val("str", 0, s, t)

\* user_data.get(key, default)
DictGet(v, default) == IF v.k = "missing" THEN default ELSE v

\* int(x) / float(x): [ok, n, error]
Parsed(n) == [ok |-> TRUE, n |-> n, error |-> ""]
Failed(e) == [ok |-> FALSE, n |-> 0, error |-> e]
ToNumber(v) ==
    CASE v.k \in {"int", "numstr"} -> Parsed(v.n)
      [] v.k = "str" -> Failed("ValueError")
      [] OTHER -> Failed("TypeError")

\* x.lower() on a value that may not be a string: [ok, error]
HasLower(v) == IF v.k \in {"str", "numstr"} THEN "" ELSE "AttributeError"

\* A free text the subsystem only scans for keywords: whether it is the empty
\* string, whether len(text.strip()) > 50, and the keywords it contains.
Text(e, l, t) == [empty |-> e, long |-> l, terms |-> t]
EmptyText == Text(TRUE, FALSE, {})
ContainsAny(text, words) == text.terms \cap words # {}

\* _parse_health_constraints
ParseHealthConstraints(health_terms) ==
    (IF "knee" \in health_terms THEN <<"low_impact_preferred">> ELSE <<>>)
    \o (IF "back" \in health_terms THEN <<"spine_neutral_exercises">> ELSE <<>>)
    \o (IF "heart" \in health_terms THEN <<"moderate_intensity_only">> ELSE <<>>)

\* _infer_fitness_level, after age = int(user_data.get('age', 30))
InferFitnessLevel(age, analysis) ==
    IF ~analysis.empty
       /\ ContainsAny(analysis, {"advanced", "muscular", "athletic"})
    THEN "advanced"
    ELSE IF ~analysis.empty
            /\ ContainsAny(analysis, {"beginner", "sedentary", "limited experience"})
    THEN "beginner"
    ELSE IF ~analysis.empty
            /\ ContainsAny(analysis, {"intermediate", "moderate"})
    THEN "intermediate"
    ELSE IF age < 25 THEN "beginner_to_intermediate"
    ELSE IF age > 50 THEN "experienced_but_cautious"
    ELSE "intermediate"

\* _assess_motivation
AssessMotivation(goal, age) ==
    IF goal \in {"weight_loss", "muscle_gain"} THEN "high"
    ELSE IF age < 30 THEN "moderate_to_high"
    ELSE "moderate"

\* _infer_equipment_access (list(set(equipment)): a set)
InferEquipmentAccess(analysis) ==
    LET seen ==
          {"bodyweight"}
          \cup (IF ContainsAny(analysis, {"dumbbell", "weight"})
                THEN {"dumbbells", "free_weights"} ELSE {})
          \cup (IF ContainsAny(analysis, {"gym", "machine"})
                THEN {"gym_machines", "cable_machine"} ELSE {})
          \cup (IF ContainsAny(analysis, {"barbell"}) THEN {"barbell"} ELSE {})
          \cup (IF ContainsAny(analysis, {"resistance band", "band"})
                THEN {"resistance_bands"} ELSE {})
          \cup (IF ContainsAny(analysis, {"kettlebell"}) THEN {"kettlebells"} ELSE {})
          \cup (IF ContainsAny(analysis, {"treadmill", "cardio machine"})
                THEN {"cardio_machines"} ELSE {})
        equipment == IF analysis.empty THEN {"bodyweight"} ELSE seen
    IN IF equipment = {"bodyweight"}
       THEN {"bodyweight", "dumbbells", "resistance_bands"}
       ELSE equipment

\* _extract_visual_insights: the keys of the returned dictionary
ExtractVisualInsights(analysis) ==
    IF analysis.empty THEN {}
    ELSE (IF ContainsAny(analysis, {"form", "posture", "alignment", "technique"})
          THEN {"form_issues", "form_assessment"} ELSE {})
         \cup (IF ContainsAny(analysis, {"dumbbell", "barbell", "machine", "gym",
                                               "weight", "kettlebell", "band"})
               THEN {"equipment_available", "equipment_assessment"} ELSE {})
         \cup (IF ContainsAny(analysis, {"muscular", "athletic", "beginner",
                                               "advanced", "experienced", "sedentary"})
               THEN {"current_fitness_level", "fitness_level_visual"} ELSE {})
         \cup (IF ContainsAny(analysis, {"flexibility", "mobility", "stiff",
                                               "range of motion", "tight"})
               THEN {"mobility_issues", "mobility_assessment"} ELSE {})
         \cup (IF ContainsAny(analysis, {"muscle definition", "body fat",
                                               "physique", "composition"})
               THEN {"muscle_definition", "body_composition"} ELSE {})
         \cup (IF ContainsAny(analysis, {"rounded shoulders", "forward head",
                                               "slouch", "posture"})
               THEN {"posture_issues", "postural_assessment"} ELSE {})

\* What a call returns: a value, or the exception it raised.
Ok(v) == [raised |-> FALSE, error |-> "", value |-> v]
Raise(e) == [raised |-> TRUE, error |-> e, value |-> NoVal]

\* the goal as the string the later stages compare: None stays None (NoVal)
GoalOf(data) ==
    LET g == DictGet(data.agent_type, PyStr("general"))
    IN IF g.k = "none" THEN NoVal ELSE g.s

\* _analyze_user_profile.  int(), float() and .lower() are applied to what the
\* dictionary holds, with no handler around them (only the height conversion
\* has one), so a value they reject ends the call with their exception.
AnalyzeUserProfile(data, analysis) ==
    LET age == ToNumber(DictGet(data.age, PyInt(30)))
        weight == ToNumber(DictGet(data.weight, PyInt(150)))
        gender == DictGet(data.gender, PyStr("male"))
        height == data.height
        health == DictGet(data.health_conditions, PyStr(""))
        goal == GoalOf(data)
        with_height == height.k \in {"int", "numstr"}
    IN IF ~age.ok THEN Raise(age.error)
       ELSE IF ~weight.ok THEN Raise(weight.error)
       ELSE IF HasLower(health) # "" THEN Raise(HasLower(health))
       ELSE Ok([demographics |->
                    [age |-> age.n, gender |-> gender, weight |-> weight.n,
                     has_height |-> with_height,
                     height |-> IF with_height THEN height.n ELSE 0],
                primary_goal |-> goal,
                health_constraints |-> ParseHealthConstraints(health.terms),
                fitness_level |-> InferFitnessLevel(age.n, analysis),
                motivation_level |-> AssessMotivation(goal, age.n),
                time_availability |-> "moderate",
                equipment_access |-> InferEquipmentAccess(analysis),
                visual_assessment |-> ExtractVisualInsights(analysis),
                image_analysis |-> analysis])

\* _create_strategic_plan
CreateStrategicPlan(profile, max_it) ==
    LET goal == profile.primary_goal
        vi == profile.visual_assessment
        extra(flag, sub_goal) == IF flag \in vi THEN <<sub_goal>> ELSE <<>>
        sub_goals ==
          CASE goal = "weight_loss" ->
                 <<"find_high_intensity_cardio", "identify_calorie_burning_exercises",
                   "locate_nutrition_guidance", "discover_progression_strategies">>
                 \o extra("form_issues", "address_form_corrections")
                 \o extra("equipment_available", "utilize_available_equipment")
            [] goal = "muscle_gain" ->
                 <<"find_progressive_strength_exercises", "identify_muscle_building_protocols",
                   "locate_nutrition_for_growth", "discover_recovery_strategies">>
                 \o extra("muscle_definition", "target_specific_muscle_groups")
                 \o extra("posture_issues", "address_postural_corrections")
            [] goal = "cardio" ->
                 <<"find_endurance_training_methods", "identify_cardio_progressions",
                   "locate_heart_rate_guidance", "discover_training_variations">>
                 \o extra("current_fitness_level", "adjust_intensity_for_level")
                 \o extra("equipment_available", "optimize_available_equipment")
            [] OTHER ->
                 <<"find_foundational_exercises", "identify_balanced_routines",
                   "locate_beginner_progressions", "discover_safety_guidelines">>
                 \o extra("form_assessment", "improve_exercise_form")
                 \o extra("mobility_issues", "address_mobility_limitations")
                 \o extra("equipment_assessment", "adapt_for_equipment_constraints")
        strategies ==
          CASE goal = "weight_loss" -> <<BROAD_SEARCH, TARGETED_SEARCH>>
            [] goal = "muscle_gain" -> <<TARGETED_SEARCH, PROGRESSIVE_REFINEMENT>>
            [] goal = "cardio" -> <<BROAD_SEARCH, MULTI_ANGLE_APPROACH>>
            [] OTHER -> <<BROAD_SEARCH, PROGRESSIVE_REFINEMENT>>
    IN [primary_goal |-> goal,
        sub_goals |-> sub_goals,
        search_strategies |-> strategies,
        expected_iterations |-> Min(Len(sub_goals), max_it),
        success_criteria |->
            [relevance_threshold |-> 70, coverage_target |-> 80,
             diversity_minimum |-> 3, practical_applicability |-> 90]]

----------------------------------------------------------------------------
(* Visual analysis (phase 0) *)

\* the placeholder returned when self.ai_client is None
SkippedNoClient == Text(FALSE, TRUE, {"skipped"})

\* f"VISUAL ANALYSIS SKIPPED: Vision model error - {type}: {str(error)[:200]}"
SkippedVisionError(error_text) ==
    Text(FALSE, TRUE, {"skipped", "error"} \cup error_text.terms)

\* What the vision call of the generation capability may do: return an
\* analysis, or raise an error whose message is `text`.
VisionReturns(t) == [raises |-> FALSE, text |-> t]
VisionRaises(t) == [raises |-> TRUE, text |-> t]
VisionOutcomes ==
    {VisionReturns(Text(FALSE, TRUE, {"form", "posture", "dumbbell", "weight"})),
     VisionReturns(Text(FALSE, FALSE, {})),
     VisionRaises(Text(FALSE, TRUE, {"404", "deployment"})),
     VisionRaises(Text(FALSE, TRUE, {"form"}))}

\* an image path: whether os.path.exists(img_path) and the file can be read
Image(e) == [exists |-> e]

\* A visual analysis that looks for its client only after it has read the
\* image files.
AnalyzeImagesClientLate(imgs, client, data, vision) ==
    IF imgs = <<>> THEN EmptyText
    ELSE IF \A i \in 1..Len(imgs) : ~imgs[i].exists THEN EmptyText
    ELSE IF ~client THEN SkippedNoClient
    ELSE IF DictGet(data.health_conditions, PyStr("")).k \notin {"str", "numstr"}
    THEN EmptyText
    ELSE IF vision.raises THEN SkippedVisionError(vision.text)
    ELSE vision.text

\* _analyze_images
AnalyzeImages(imgs, client, data, vision) ==
    IF imgs = <<>> THEN EmptyText
    ELSE IF ~client THEN SkippedNoClient
    ELSE IF \A i \in 1..Len(imgs) : ~imgs[i].exists THEN EmptyText
    \* health_conditions.strip() on a non-string: caught by the outer handler
    ELSE IF DictGet(data.health_conditions, PyStr("")).k \notin {"str", "numstr"}
    THEN EmptyText
    ELSE IF vision.raises THEN SkippedVisionError(vision.text)
    ELSE vision.text

----------------------------------------------------------------------------
(* Synthesizer and Reflector *)

\* the sum, in lowest terms
RatAdd(a, b) == Lowest(Rat(a.num * b.den + b.num * a.den, a.den * b.den))

RECURSIVE SumQuality(_)
SumQuality(entries) ==
    IF entries = <<>> THEN Zero
    ELSE RatAdd(Head(entries).quality_score, SumQuality(Tail(entries)))

\* max(keys, key=...): the first key, in insertion order, with the largest value
RECURSIVE BestKey(_, _, _)
BestKey(keys, memory, best) ==
    IF keys = <<>> THEN best
    ELSE IF RatGt(SumQuality(memory.lists[Head(keys)]), SumQuality(memory.lists[best]))
         THEN BestKey(Tail(keys), memory, Head(keys))
         ELSE BestKey(Tail(keys), memory, best)

\* A report that names the strategy the memory was first given an entry for.
AnalyzeNamingFirstKey(memory) ==
    IF memory.order = <<>>
    THEN [named |-> NoVal,
          text |-> <<"Initial recommendation - building strategy intelligence.">>]
    ELSE [named |-> Head(memory.order),
          text |-> <<"Analysis suggests ", Head(memory.order),
                     " approach is most effective for your profile.">>]

\* _analyze_successful_strategies: [named, text]
AnalyzeSuccessfulStrategies(memory) ==
    IF memory.order = <<>>
    THEN [named |-> NoVal,
          text |-> <<"Initial recommendation - building strategy intelligence.">>]
    ELSE LET best == BestKey(Tail(memory.order), memory, Head(memory.order))
         IN [named |-> best,
             text |-> <<"Analysis suggests ", best, " approach is most effective for your profile.">>]

CountType(results, word_types) ==
    Cardinality({i \in 1..Len(results) : results[i].exercise_type \in word_types})

\* _generate_personalized_insights ("cardio" / "strength" in exercise_type.lower())
GeneratePersonalizedInsights(profile, results, analysis) ==
    LET goal == profile.primary_goal
        vi == profile.visual_assessment
        insights ==
          (IF ~analysis.empty THEN <<"Visual assessment findings: ...">> ELSE <<>>)
          \o (IF goal = "weight_loss" /\ CountType(results, {"cardio"}) >= 3
              THEN <<"Strong focus on cardiovascular exercises detected - excellent for weight loss.">>
              ELSE <<>>)
          \o (IF goal = "muscle_gain"
                 /\ CountType(results, {"strength", "Beginner Strength"}) >= 2
              THEN <<"Progressive strength training approach identified - optimal for muscle development.">>
              ELSE <<>>)
          \o (IF "form_issues" \in vi
              THEN <<"Form improvements identified from visual analysis.">> ELSE <<>>)
          \o (IF "equipment_available" \in vi
              THEN <<"Available equipment optimized in recommendations.">> ELSE <<>>)
    IN IF insights = <<>>
       THEN <<"Balanced approach detected across multiple exercise modalities.">>
       ELSE insights

\* _create_progressive_plan
CreateProgressivePlan(plan, results) ==
    IF "beginner" \in Difficulties(results) /\ "advanced" \in Difficulties(results)
    THEN <<"Week 1-2: Focus on beginner exercises. Week 3-4: Progress to intermediate. Month 2+: Advance to complex movements.">>
    ELSE IF "beginner" \in Difficulties(results)
    THEN <<"Start with foundational movements and progress gradually over 4-6 weeks.">>
    ELSE <<"Continue with current intensity and focus on progressive overload.">>

\* Final metrics that take the sum of the relevance scores for their mean.
FinalQualityFromSum(results, plan) ==
    IF results = <<>>
    THEN [overall_quality |-> Zero, goal_coverage |-> Zero, confidence |-> Zero]
    ELSE LET g == Len(plan.sub_goals)
             s == SumRelevance(results)
             cov == Min(Cardinality(ExerciseTypes(results)), g)
         IN [overall_quality |-> Rat(s, 100),
             goal_coverage |-> Rat(cov, g),
             confidence |-> Rat(6 * s * g + 400 * cov, 1000 * g)]

\* Final metrics without the `if not results` return: for no results the mean
\* and the confidence are quotients by zero.
FinalQualityUnguarded(results, plan) ==
    LET n == Len(results)
        g == Len(plan.sub_goals)
        s == SumRelevance(results)
        cov == Min(Cardinality(ExerciseTypes(results)), g)
    IN [overall_quality |-> Rat(s, 100 * n),
        goal_coverage |-> Rat(cov, g),
        confidence |-> Rat(6 * s * g + 400 * n * cov, 1000 * n * g)]

\* _calculate_final_quality_metrics
CalculateFinalQualityMetrics(results, plan) ==
    IF results = <<>>
    THEN [overall_quality |-> Zero, goal_coverage |-> Zero, confidence |-> Zero]
    ELSE LET n == Len(results)
             g == Len(plan.sub_goals)
             s == SumRelevance(results)
             cov == Min(Cardinality(ExerciseTypes(results)), g)
         IN [overall_quality |-> Rat(s, 100 * n),
             goal_coverage |-> Rat(cov, g),
             confidence |-> Rat(6 * s * g + 400 * n * cov, 1000 * n * g)]

\* _integrate_visual_insights
IntegrateVisualInsights(vi, analysis) ==
    LET is_error == ~analysis.empty
                    /\ ContainsAny(analysis, {"error", "failed", "deployment", "404",
                                              "unavailable", "skipped"})
        first ==
          IF ~analysis.empty /\ analysis.long /\ ~is_error
          THEN <<"VISUAL ANALYSIS COMPLETED">>
               \o (IF ContainsAny(analysis, {"form", "posture"})
                   THEN <<"Form and posture considerations identified from visual analysis">>
                   ELSE <<>>)
               \o (IF ContainsAny(analysis, {"equipment"})
                   THEN <<"Available equipment optimized based on visual assessment">>
                   ELSE <<>>)
               \o (IF ContainsAny(analysis, {"flexibility", "mobility"})
                   THEN <<"Mobility and flexibility needs addressed from visual cues">>
                   ELSE <<>>)
               \o (IF ContainsAny(analysis, {"fitness level", "condition"})
                   THEN <<"Current fitness level factored in from visual evaluation">>
                   ELSE <<>>)
               \o (IF ContainsAny(analysis, {"muscle"})
                   THEN <<"Muscle development and composition analyzed">> ELSE <<>>)
               \o (IF ContainsAny(analysis, {"body", "physique"})
                   THEN <<"Body composition insights integrated into recommendations">>
                   ELSE <<>>)
               \o <<"Analysis Preview: ...">>
          ELSE IF is_error
          THEN <<"Visual analysis not available - recommendation based on comprehensive profile data and ChromaDB exercise database">>
          ELSE IF ~analysis.empty
          THEN <<"Image provided but analysis returned limited results">>
          ELSE <<"No images provided - recommendations based on profile data and ChromaDB vector database">>
        structured ==
          IF vi # {}
          THEN <<"Structured Visual Insights Detected:">>
               \o (IF "form_issues" \in vi
                   THEN <<"Specific form corrections integrated into exercise selection">>
                   ELSE <<>>)
               \o (IF "equipment_available" \in vi
                   THEN <<"Equipment availability optimized in workout design">>
                   ELSE <<>>)
               \o (IF "current_fitness_level" \in vi
                   THEN <<"Fitness level assessment guides exercise intensity">>
                   ELSE <<>>)
          ELSE <<>>
    IN first \o structured

\* str.title() on the body parts and levels of the model
Title(s) ==
    CASE s = "" -> ""
      [] s = "General" -> "General"
      [] s = "legs" -> "Legs"
      [] s = "chest" -> "Chest"
      [] s = "back" -> "Back"
      [] s = "core" -> "Core"
      [] s = "arms" -> "Arms"
      [] s = "shoulders" -> "Shoulders"
      [] s = "glutes" -> "Glutes"
      [] s = "calves" -> "Calves"
      [] s = "beginner" -> "Beginner"
      [] s = "intermediate" -> "Intermediate"
      [] s = "advanced" -> "Advanced"
      [] s = "varied" -> "Varied"

\* metadata = result.target_muscles[0] if result.target_muscles else "General"
CategoryOf(result) ==
    IF result.target_muscles # <<>> THEN result.target_muscles[1] ELSE "General"

\* keys of exercises_by_category, in insertion order
RECURSIVE CategoryOrder(_, _)
CategoryOrder(results, seen) ==
    IF results = <<>> THEN seen
    ELSE CategoryOrder(Tail(results),
                       IF CategoryOf(Head(results)) \in Range(seen) THEN seen
                       ELSE Append(seen, CategoryOf(Head(results))))

\* exercises_by_category[category]: name (the contents of the model are
\* one-line names without a period, which the name parsing leaves as they
\* are), difficulty and score of each result in the category, in order
RECURSIVE ExercisesIn(_, _)
ExercisesIn(results, category) ==
    IF results = <<>> THEN <<>>
    ELSE (IF CategoryOf(Head(results)) = category
          THEN <<[name |-> Head(results).content,
                  difficulty |-> Head(results).difficulty,
                  score |-> Head(results).relevance_score]>>
          ELSE <<>>)
         \o ExercisesIn(Tail(results), category)

\* the categories and exercises _format_exercises_from_search_results prints:
\* the first 5 categories, the first 3 exercises of each
ExerciseGroups(results) ==
    LET cats == Take(CategoryOrder(results, <<>>), 5)
    IN [c \in 1..Len(cats) |->
           [category |-> cats[c], exercises |-> Take(ExercisesIn(results, cats[c]), 3)]]

SetsReps(goal) ==
    CASE goal = "muscle_gain" -> "4 sets of 6-8 reps"
      [] goal = "weight_loss" -> "3 sets of 12-15 reps"
      [] goal = "strength" -> "5 sets of 3-5 reps"
      [] OTHER -> "3 sets of 10-12 reps"

RECURSIVE ExerciseLines(_, _)
ExerciseLines(exercises, goal) ==
    IF exercises = <<>> THEN <<>>
    ELSE <<"- ", Head(exercises).name, SetsReps(goal), Title(Head(exercises).difficulty)>>
         \o ExerciseLines(Tail(exercises), goal)

RECURSIVE GroupLines(_, _)
GroupLines(groups, goal) ==
    IF groups = <<>> THEN <<>>
    ELSE <<"**", Title(Head(groups).category), ":**">>
         \o ExerciseLines(Head(groups).exercises, goal)
         \o GroupLines(Tail(groups), goal)

\* _format_exercises_from_search_results: "" for no results
FormatExercisesFromSearchResults(results, goal) ==
    IF results = <<>> THEN <<>>
    ELSE <<"**Recommended Exercises from 2,918-Exercise Database:**">>
         \o GroupLines(ExerciseGroups(results), goal)

\* get_azure_search_enhanced_fallback_sync on the converted user data: the
\* text of the generator the goal selects.  The weight-loss and muscle-gain
\* generators call gender.lower(); the searches inside have their own handlers.
WeeklyStructureMarker == "**(runner) COMPREHENSIVE WEEKLY STRUCTURE:**"

BaseRecommendation(data) ==
    LET goal == GoalOf(data)
        gender == DictGet(data.gender, PyStr("male"))
    IN IF goal \in {"weight_loss", "muscle_gain"} /\ HasLower(gender) # ""
       THEN Raise(HasLower(gender))
       ELSE Ok(CASE goal = "weight_loss" ->
                      <<"Enhanced Weight Loss Recommendation", "**WEEKLY WORKOUT SCHEDULE:**">>
                 [] goal = "muscle_gain" ->
                      <<"Enhanced Muscle Building Recommendation",
                        "**MUSCLE BUILDING CALCULATIONS:**">>
                 [] OTHER ->
                      <<"Enhanced General Fitness Program", WeeklyStructureMarker,
                        "**WEEKLY GOALS & PROGRESSION:**">>)

\* the markers the synthesizer looks for: a segment matches a marker when the
\* marker occurs in it
Markers ==
    <<{}, {WeeklyStructureMarker}, {}, {WeeklyStructureMarker}>>

\* enhanced_base.replace(marker, block + marker)
RECURSIVE InjectBefore(_, _, _)
InjectBefore(text, marker_segments, block) ==
    IF text = <<>> THEN <<>>
    ELSE (IF Head(text) \in marker_segments THEN block \o <<Head(text)>>
          ELSE <<Head(text)>>)
         \o InjectBefore(Tail(text), marker_segments, block)

\* the first marker, in list order, that occurs in the text (0: none)
FirstMarker(text) ==
    IF \E m \in 1..Len(Markers) : Range(text) \cap Markers[m] # {}
    THEN CHOOSE m \in 1..Len(Markers) :
            /\ Range(text) \cap Markers[m] # {}
            /\ \A k \in 1..(m - 1) : Range(text) \cap Markers[k] = {}
    ELSE 0

\* the text the synthesizer builds from the base recommendation and the
\* exercise list
FinalRecommendation(base_text, exercise_list, results) ==
    IF exercise_list # <<>> /\ Len(results) > 0
    THEN LET block == <<"**CHROMADB-POWERED SPECIFIC EXERCISES:**">> \o exercise_list
             m == FirstMarker(base_text)
         IN IF m # 0 THEN InjectBefore(base_text, Markers[m], block)
            ELSE block \o base_text
    ELSE base_text

\* enhanced_content
EnhancedContent(final_recommendation, enhancements) ==
    final_recommendation
    \o <<"Agentic RAG Intelligence Insights", "Visual Assessment Integration:">>
    \o enhancements.visual_assessment_integration
    \o <<"Personalized Strategy Analysis:">>
    \o enhancements.personalized_insights
    \o <<"Progressive Plan:">>
    \o enhancements.progressive_recommendations
    \o <<"Quality Assessment:",
         "This recommendation was generated using Agentic RAG">>

\* the dictionary _synthesize_agentic_recommendation returns, given the text of
\* the base recommendation
SynthesisPayload(results, plan, profile, memory, analysis, base_text) ==
    LET enhancements ==
          [search_strategy_analysis |-> AnalyzeSuccessfulStrategies(memory),
           personalized_insights |-> GeneratePersonalizedInsights(profile, results, analysis),
           progressive_recommendations |-> CreateProgressivePlan(plan, results),
           quality_metrics |-> CalculateFinalQualityMetrics(results, plan),
           visual_assessment_integration |->
               IntegrateVisualInsights(profile.visual_assessment, analysis)]
        exercise_list == FormatExercisesFromSearchResults(results, plan.primary_goal)
    IN [recommendation |->
            EnhancedContent(FinalRecommendation(base_text, exercise_list, results),
                            enhancements),
        agentic_metadata |-> enhancements,
        search_results_used |-> Len(results),
        agent_confidence |-> enhancements.quality_metrics.confidence]

\* A synthesizer whose quality metrics divide by the number of results without
\* the `if not results` guard: it fails on an empty result set.  The property
\* of the runs whose every search call fails tells it from the synthesizer below.
SynthesizeWithoutEmptyGuard(results, plan, profile, data, memory, analysis) ==
    LET base == BaseRecommendation(data)
    IN IF results = <<>> THEN Raise("ZeroDivisionError")
       ELSE IF base.raised THEN Raise(base.error)
       ELSE Ok(SynthesisPayload(results, plan, profile, memory, analysis, base.value))

\* _synthesize_agentic_recommendation: the conversions of age and weight, the
\* base recommendation (no handler around either), then the payload
SynthesizeAgenticRecommendation(results, plan, profile, data, memory, analysis) ==
    LET age == ToNumber(DictGet(data.age, PyInt(30)))
        weight == ToNumber(DictGet(data.weight, PyInt(150)))
        base == BaseRecommendation(data)
    IN IF ~age.ok THEN Raise(age.error)
       ELSE IF ~weight.ok THEN Raise(weight.error)
       ELSE IF base.raised THEN Raise(base.error)
       ELSE Ok(SynthesisPayload(results, plan, profile, memory, analysis, base.value))

Sources(results) == {results[i].source : i \in 1..Len(results)}

\* _generate_reflection_insights
GenerateReflectionInsights(plan, results) ==
    [planning_effectiveness |-> Len(results) <= plan.expected_iterations,
     goal_achievement |->
         10 * Cardinality(ExerciseTypes(results)) >= 7 * Len(plan.sub_goals),
     search_efficiency |->
         IF results # <<>> THEN Rat(SumRelevance(results), 100 * Len(results)) ELSE Zero,
     strategy_adaptation |-> Cardinality(Sources(results)) > 1,
     learnings_for_future |->
         "Strategic planning improved recommendation quality and coverage"]

NoInsights ==
    [planning_effectiveness |-> FALSE, goal_achievement |-> FALSE,
     search_efficiency |-> Zero, strategy_adaptation |-> FALSE,
     learnings_for_future |-> ""]

\* the dictionary generate_recommendation returns: the synthesizer's payload,
\* agentic_insights when reflection is on, and the agentic metadata
FinalPayload(payload, plan, results, strategy, reflect) ==
    [recommendation |-> payload.recommendation,
     agentic_metadata |-> payload.agentic_metadata,
     search_results_used |-> payload.search_results_used,
     agent_confidence |-> payload.agent_confidence,
     has_agentic_insights |-> reflect,
     agentic_insights |->
         IF reflect THEN GenerateReflectionInsights(plan, results) ELSE NoInsights,
     agentic_rag |-> TRUE,
     agent_plan |-> plan,
     iterations_used |-> Len(results),
     strategies_employed |-> IF strategy # NoVal THEN <<strategy>> ELSE <<>>,
     enhanced_with_intelligence |-> TRUE]

----------------------------------------------------------------------------
(* generate_recommendation as a state machine.  One controller serves one   *)
(* request.  The steps are cut where the controller calls a collaborator:  *)
(* the start (visual analysis, profile, plan), the search calls of a       *)
(* round, the assessment and stop decision, the synthesis.                 *)

UserData(age, gender, weight, height, goal, health) ==
    [age |-> age, gender |-> gender, weight |-> weight, height |-> height,
     agent_type |-> goal, health_conditions |-> health]

Goals == {"weight_loss", "muscle_gain", "cardio", "strength", "general"}

\* the requests of the runs explored: a well-formed request for every goal,
\* a request without a goal, and requests with one field the upstream
\* validation let through as None or as text
Requests ==
    {UserData(PyInt(30), PyStr("male"), PyInt(150), Missing, PyStr(g), PyText("", {}))
        : g \in Goals}
    \cup {UserData(Missing, Missing, Missing, Missing, Missing, Missing),
          UserData(PyStr("abc"), PyStr("male"), PyInt(150), Missing, PyStr("cardio"),
                   PyText("knee pain", {"knee"})),
          UserData(PyInt(30), PyNone, PyInt(150), PyNumStr(70), PyStr("weight_loss"),
                   PyText("", {})),
          UserData(PyNumStr(62), PyNone, PyNumStr(180), PyStr("tall"), PyStr("general"),
                   PyText("bad back", {"back"}))}

NoOutcome == [kind |-> "none", at |-> "", error |-> "", payload |-> NoVal]
Returned(p) == [kind |-> "returned", at |-> "", error |-> "", payload |-> p]
\* an exception that left generate_recommendation: where it was raised, and its type
Escaped(at, e) == [kind |-> "raised", at |-> at, error |-> e, payload |-> NoVal]

NoCall == [op |-> "none"]

NoReturn == [kind |-> "none", recommendation |-> <<>>]

\* generate_recommendation called directly, not through
\* get_fallback_fitness_recommendation
NoCaller ==
    /\ enable_agentic = FALSE
    /\ search_available = FALSE
    /\ fallback_pc = "idle"
    /\ thread = "unstarted"
    /\ result_queue = <<>>
    /\ fallback_return = NoReturn
    /\ join_timed_out = FALSE
    /\ alive_at_check = FALSE

\* the locals of generate_recommendation before its first step
Locals ==
    /\ image_analysis = EmptyText
    /\ user_profile = NoVal
    /\ agent_plan = NoVal
    /\ iteration = 0
    /\ current_strategy = NoVal
    /\ iteration_results = <<>>
    /\ search_results = <<>>
    /\ quality_assessment = NoVal
    /\ rounds = <<>>
    /\ outcome = NoOutcome

\* the state of a controller after __init__ and of a request before its first step
Fresh ==
    /\ successful_strategies = EmptyMemory
    /\ recorded = [k \in AgentStrategy |-> <<>>]
    /\ pc = "start"
    /\ Locals

Init ==
    /\ vector_store \in Stores
    /\ ai_client = FALSE
    /\ max_iterations \in 0..MaxIterations
    /\ reflection_mode \in BOOLEAN
    /\ user_data \in Requests
    /\ images = <<>>
    /\ Fresh
    /\ call = NoCall
    /\ ret = NoCall
    /\ NoCaller

\* range(self.max_iterations + 1): one index too many
InRangeInclusive(it, max_it) == it <= max_it

\* range(self.max_iterations - 1): one index too few
InRangeShort(it, max_it) == it < max_it - 1

\* `for iteration in range(self.max_iterations)`: whether the loop body runs
\* for index it
InRange(it, max_it) == it < max_it

\* the state of the caller of generate_recommendation
caller == <<enable_agentic, search_available, fallback_pc, thread, result_queue,
            fallback_return, join_timed_out, alive_at_check>>

config == <<vector_store, ai_client, max_iterations, reflection_mode, user_data,
            images, call, ret, caller>>

\* Phase 0 and phase 1: visual analysis (only when images are given), profile
\* and plan.  An exception of the profile analysis leaves the function.
Start ==
    /\ pc = "start"
    /\ \E vision \in VisionOutcomes :
         LET analysis == IF images # <<>>
                         THEN AnalyzeImages(images, ai_client, user_data, vision)
                         ELSE EmptyText
             profile == AnalyzeUserProfile(user_data, analysis)
         IN /\ image_analysis' = analysis
            /\ IF profile.raised
               THEN /\ pc' = "raised"
                    /\ outcome' = Escaped("profile", profile.error)
                    /\ UNCHANGED <<user_profile, agent_plan>>
               ELSE /\ user_profile' = profile.value
                    /\ agent_plan' = CreateStrategicPlan(profile.value, max_iterations)
                    /\ pc' = IF InRange(0, max_iterations) THEN "round" ELSE "synthesize"
                    /\ UNCHANGED outcome
    /\ UNCHANGED <<config, successful_strategies, iteration, current_strategy,
                   iteration_results, search_results, quality_assessment,
                   rounds, recorded>>

\* what the search capability does on the n calls of a round: any subset of
\* the calls fails; call i otherwise returns the store's answer for `slot[i]`
RoundResponses(store, slots) ==
    {[i \in 1..Len(slots) |->
         IF i \in failing THEN Raises ELSE Returns(StoreAnswer(store, slots[i]))]
       : failing \in SUBSET (1..Len(slots))}

\* the first half of a round: strategy selection and _execute_strategic_search
BeginRound(strategy, round) ==
    /\ current_strategy' = strategy
    /\ iteration_results' = round.results
    /\ rounds' = Append(rounds, [iteration |-> iteration, strategy |-> strategy,
                                 trace |-> round.trace,
                                 count |-> Len(round.results), decided |-> FALSE,
                                 stop |-> FALSE])
    /\ pc' = "assess"
    /\ UNCHANGED <<config, successful_strategies, image_analysis, user_profile,
                   agent_plan, iteration, search_results, quality_assessment,
                   outcome, recorded>>

Selected(strategy) ==
    /\ pc = "round"
    /\ SelectOptimalStrategy(agent_plan, search_results, iteration) = strategy

BroadRound ==
    /\ Selected(BROAD_SEARCH)
    /\ \E responses \in RoundResponses(vector_store, <<1, 2, 3, 4>>) :
         BeginRound(BROAD_SEARCH, ExecuteBroadSearch(agent_plan, responses))

TargetedRound ==
    /\ Selected(TARGETED_SEARCH)
    /\ \E responses \in RoundResponses(vector_store, <<iteration + 1>>) :
         BeginRound(TARGETED_SEARCH,
                    ExecuteTargetedSearch(agent_plan, iteration, responses))

ProgressiveRound ==
    /\ Selected(PROGRESSIVE_REFINEMENT)
    /\ \E responses \in RoundResponses(vector_store, <<1>>) :
         BeginRound(PROGRESSIVE_REFINEMENT,
                    ExecuteProgressiveRefinement(agent_plan, responses))

MultiAngleRound ==
    /\ Selected(MULTI_ANGLE_APPROACH)
    /\ \E responses \in RoundResponses(vector_store, <<1, 2, 3>>) :
         BeginRound(MULTI_ANGLE_APPROACH,
                    ExecuteMultiAngleSearch(agent_plan, responses))

\* A loop that puts the round's results in front of the cumulative list.
ExtendAtFront(all_results, new_results) == new_results \o all_results

\* search_results.extend(iteration_results)
Extend(all_results, new_results) == all_results \o new_results

\* the second half of a round: quality assessment, extension of the
\* cumulative results, stop decision and, on continue, the memory update
AssessAndDecide ==
    /\ pc = "assess"
    /\ LET qa == AssessResultQuality(iteration_results, agent_plan, search_results)
           stop == ShouldStopSearching(qa, agent_plan, iteration, max_iterations)
           last == rounds[Len(rounds)]
       IN /\ quality_assessment' = qa
          /\ search_results' = Extend(search_results, iteration_results)
          /\ rounds' = [rounds EXCEPT ![Len(rounds)] =
                           [last EXCEPT !.decided = TRUE, !.stop = stop]]
          /\ IF stop
             THEN /\ pc' = "synthesize"
                  /\ UNCHANGED <<successful_strategies, recorded, iteration>>
             ELSE /\ successful_strategies' =
                        UpdateAgentMemory(successful_strategies, current_strategy,
                                          iteration_results, qa)
                  /\ recorded' = [recorded EXCEPT ![current_strategy] =
                                     Append(@, MemoryEntry(iteration_results, qa))]
                  /\ iteration' = iteration + 1
                  /\ pc' = IF InRange(iteration + 1, max_iterations)
                           THEN "round" ELSE "synthesize"
    /\ UNCHANGED <<config, image_analysis, user_profile, agent_plan,
                   current_strategy, iteration_results, outcome>>

\* Phases 3 and 4: synthesis, reflection and metadata.  The synthesizer has no
\* handler around the base recommendation, so its exception leaves the function.
Synthesize ==
    /\ pc = "synthesize"
    /\ LET syn == SynthesizeAgenticRecommendation(search_results, agent_plan,
                      user_profile, user_data, successful_strategies, image_analysis)
       IN IF syn.raised
          THEN /\ pc' = "raised"
               /\ outcome' = Escaped("synthesis", syn.error)
          ELSE /\ pc' = "done"
               /\ outcome' = Returned(FinalPayload(syn.value, agent_plan, search_results,
                                                   current_strategy, reflection_mode))
    /\ UNCHANGED <<config, successful_strategies, image_analysis, user_profile,
                   agent_plan, iteration, current_strategy, iteration_results,
                   search_results, quality_assessment, rounds, recorded>>

Next ==
    \/ Start
    \/ BroadRound
    \/ TargetedRound
    \/ ProgressiveRound
    \/ MultiAngleRound
    \/ AssessAndDecide
    \/ Synthesize

Spec == Init /\ [][Next]_vars

----------------------------------------------------------------------------
(* The selector and the stopping policy on their own.  Both are functions   *)
(* of their arguments (and of self.max_iterations); here they are applied  *)
(* to arguments the loop of generate_recommendation may or may not produce. *)

\* longest prior result list handed to the selector
MaxPrior == 3

WellFormed(goal) ==
    UserData(PyInt(30), PyStr("male"), PyInt(150), Missing, PyStr(goal), PyText("", {}))

\* plans of every goal, without and with visual insights
UnitPlans ==
    {CreateStrategicPlan(AnalyzeUserProfile(WellFormed(g), a).value, MaxIterations)
       : g \in Goals, a \in {EmptyText, Text(FALSE, TRUE, {"form", "dumbbell"})}}

\* a moderately relevant cardio result, a bare result of type "general", a
\* close result
ResultPool ==
    {BroadResult(Hit("Jogging", TRUE, 50, "cardio", "legs", "beginner")),
     BroadResult(Hit("Walking", FALSE, 0, NoVal, NoVal, NoVal)),
     BroadResult(RichHit(1, 1))}

\* cumulative results whose average relevance is 0.4, 0.7 and 0.3.  The two
\* lists on the thresholds have four results: sum(...) / len(...) of four
\* equal scores 1.0 - 0.6 or 1.0 - 0.3 is the float 0.4 or 0.7 itself, which
\* the division by three never is.
BoundaryLists ==
    LET at(d) == BroadResult(Hit("Rowing", TRUE, d, "cardio", "back", "intermediate"))
    IN {<<at(60), at(60), at(60), at(60)>>,
        <<at(30), at(30), at(30), at(30)>>,
        <<at(70), at(70), at(70)>>}

ResultLists == UNION {[1..n -> ResultPool] : n \in 0..MaxPrior} \cup BoundaryLists

SelectCalls ==
    {[op |-> "select", plan |-> p, results |-> rs, it |-> i, qa |-> NoVal]
       : p \in UnitPlans, rs \in ResultLists, i \in 0..MaxIterations}

\* overall scores around the thresholds of the policy
Scores ==
    {Zero, Rat(1, 2), Rat(7, 10), Rat(899, 1000), Rat(9, 10), Rat(95, 100), Rat(1, 1)}

\* assessment dictionaries: "meets_criteria" absent, false or true
Assessments ==
    {[overall_score |-> sc, relevance |-> sc, coverage |-> sc, diversity |-> sc,
      has_meets |-> m[1], meets_criteria |-> m[2]]
       : sc \in Scores, m \in {<<FALSE, FALSE>>, <<TRUE, FALSE>>, <<TRUE, TRUE>>}}

StopCalls ==
    {[op |-> "should_stop", plan |-> p, results |-> <<>>, it |-> i, qa |-> q]
       : p \in UnitPlans, i \in 0..MaxIterations, q \in Assessments}

InitUnit ==
    /\ vector_store = "empty"
    /\ ai_client = FALSE
    /\ reflection_mode = FALSE
    /\ user_data = WellFormed("general")
    /\ images = <<>>
    /\ successful_strategies = EmptyMemory
    /\ recorded = [k \in AgentStrategy |-> <<>>]
    /\ pc = "unit"
    /\ Locals
    /\ \/ call \in SelectCalls /\ max_iterations = MaxIterations
       \/ call \in StopCalls /\ max_iterations \in 0..(MaxIterations + 1)
    /\ ret = NoCall
    /\ NoCaller

Result(op, v) == [op |-> op, value |-> v]

ApplySelect ==
    /\ pc = "unit" /\ call.op = "select" /\ ret.op = "none"
    /\ ret' = Result("select", SelectOptimalStrategy(call.plan, call.results, call.it))
    /\ UNCHANGED <<vector_store, ai_client, max_iterations, reflection_mode,
                   successful_strategies, user_data, images, pc, image_analysis,
                   user_profile, agent_plan, iteration, current_strategy,
                   iteration_results, search_results, quality_assessment, rounds,
                   outcome, recorded, call, caller>>

ApplyShouldStop ==
    /\ pc = "unit" /\ call.op = "should_stop" /\ ret.op = "none"
    /\ ret' = Result("should_stop",
                     ShouldStopSearching(call.qa, call.plan, call.it, max_iterations))
    /\ UNCHANGED <<vector_store, ai_client, max_iterations, reflection_mode,
                   successful_strategies, user_data, images, pc, image_analysis,
                   user_profile, agent_plan, iteration, current_strategy,
                   iteration_results, search_results, quality_assessment, rounds,
                   outcome, recorded, call, caller>>

NextUnit ==
    \/ ApplySelect
    \/ ApplyShouldStop

SpecUnit == InitUnit /\ [][NextUnit]_vars

----------------------------------------------------------------------------
(* The agent memory on its own: a controller whose memory already holds     *)
(* entries records further rounds.                                         *)

\* number of rounds recorded on top of the entries the memory starts with
MaxRecords == 3

\* the i-th entry a key was given earlier
PastEntry(i) == [quality_score |-> Rat(i, 20), result_count |-> i, timestamp |-> "current"]

\* a key starts empty or one entry short of the window
PastLists ==
    [AgentStrategy -> {<<>>, [i \in 1..(MemoryWindow - 1) |-> PastEntry(i)]}]

KeyOrder == <<BROAD_SEARCH, MULTI_ANGLE_APPROACH, TARGETED_SEARCH, PROGRESSIVE_REFINEMENT>>

PastMemory(lists) ==
    [order |-> SelectSeq(KeyOrder, LAMBDA k : lists[k] # <<>>), lists |-> lists]

\* the rounds recorded: an empty round and a round with one result
RecordInputs ==
    LET plan == CreateStrategicPlan(
                    AnalyzeUserProfile(WellFormed("general"), EmptyText).value,
                    MaxIterations)
        one == <<BroadResult(RichHit(1, 1))>>
    IN {[results |-> <<>>, quality |-> AssessResultQuality(<<>>, plan, <<>>)],
        [results |-> one, quality |-> AssessResultQuality(one, plan, <<>>)]}

InitMemory ==
    /\ vector_store = "empty"
    /\ ai_client = FALSE
    /\ max_iterations = MaxIterations
    /\ reflection_mode = FALSE
    /\ user_data = WellFormed("general")
    /\ images = <<>>
    /\ \E lists \in PastLists :
         /\ successful_strategies = PastMemory(lists)
         /\ recorded = lists
    /\ pc = "memory"
    /\ Locals
    /\ call = [op |-> "record", count |-> 0]
    /\ ret = NoCall
    /\ NoCaller

Record ==
    /\ pc = "memory" /\ call.count < MaxRecords
    /\ \E k \in AgentStrategy, inp \in RecordInputs :
         /\ successful_strategies' =
                UpdateAgentMemory(successful_strategies, k, inp.results, inp.quality)
         /\ recorded' = [recorded EXCEPT ![k] =
                            Append(@, MemoryEntry(inp.results, inp.quality))]
    /\ call' = [call EXCEPT !.count = @ + 1]
    /\ UNCHANGED <<vector_store, ai_client, max_iterations, reflection_mode,
                   user_data, images, pc, image_analysis, user_profile, agent_plan,
                   iteration, current_strategy, iteration_results, search_results,
                   quality_assessment, rounds, outcome, ret, caller>>

SpecMemory == InitMemory /\ [][Record]_vars

----------------------------------------------------------------------------
(* Properties of the controller (Spec) *)

LastRound == rounds[Len(rounds)]

\* the run is past its retrieval loop
PastLoop == pc \in {"synthesize", "done"} \/ (pc = "raised" /\ outcome.at = "synthesis")

\* C1: the retrieval loop runs at most max_iterations rounds, round r has
\* index r - 1 and no round has an index of max_iterations or more; once the
\* last allowed round is decided the run is at synthesis or beyond.
C1_LoopBounded ==
    /\ Len(rounds) <= max_iterations
    /\ \A r \in 1..Len(rounds) :
         rounds[r].iteration = r - 1 /\ rounds[r].iteration < max_iterations
    /\ (pc \in {"round", "assess"} => iteration < max_iterations)
    /\ (/\ pc \notin {"start", "assess"}
        /\ ~(pc = "raised" /\ outcome.at = "profile")
        /\ Len(rounds) = max_iterations
        => PastLoop)

\* a finished run that used all of its two or more rounds
C1_Witness ==
    pc = "done" /\ max_iterations >= 2 /\ Len(rounds) = max_iterations

\* C2: generate_recommendation never lets an exception escape; in particular a
\* run whose base-narrative call raises during synthesis still returns a payload.
C2_SynthesisReturnsPayload ==
    ~(outcome.kind = "raised" /\ outcome.at = "synthesis")

\* at least one search call was made and every search call of the run raised
AllSearchCallsRaised ==
    /\ \E r \in 1..Len(rounds) : rounds[r].trace # <<>>
    /\ \A r \in 1..Len(rounds) :
         \A i \in 1..Len(rounds[r].trace) : rounds[r].trace[i].raised

QueriesOf(strategy, plan, it) ==
    CASE strategy = BROAD_SEARCH -> BroadSearchTerms(plan.primary_goal)
      [] strategy = MULTI_ANGLE_APPROACH ->
           [i \in 1..Len(AngleSearches(plan.primary_goal)) |->
               AngleSearches(plan.primary_goal)[i].query]
      [] strategy = TARGETED_SEARCH ->
           IF it < Len(plan.sub_goals)
           THEN <<SubGoalSearchTerm(plan.sub_goals[it + 1])>> ELSE <<>>

\* hits kept per query
TopK(strategy) == IF strategy = TARGETED_SEARCH THEN 3 ELSE 2

\* the store slot the i-th query of the round reads
SlotOf(strategy, it, i) == IF strategy = TARGETED_SEARCH THEN it + 1 ELSE i

Contents(hits) == [j \in 1..Len(hits) |-> hits[j].content]

\* contents of the hits of the calls i.. that did not raise, in issuing order
RECURSIVE KeptContents(_, _, _, _)
KeptContents(trace, strategy, it, i) ==
    IF i > Len(trace) THEN <<>>
    ELSE (IF trace[i].raised THEN <<>>
          ELSE Contents(Take(StoreAnswer(vector_store, SlotOf(strategy, it, i)),
                             TopK(strategy))))
         \o KeptContents(trace, strategy, it, i + 1)

\* C4: in a BroadSearch, TargetedSearch or MultiAngle round a raising search
\* call contributes no result and does not abort the round: every query of the
\* strategy is issued, in order, and the round returns the hits of the calls
\* that succeeded, in issuing order.
C4_RoundSurvivesFailures ==
    (pc = "assess"
     /\ current_strategy \in {BROAD_SEARCH, TARGETED_SEARCH, MULTI_ANGLE_APPROACH}) =>
        /\ [i \in 1..Len(LastRound.trace) |-> LastRound.trace[i].query]
             = QueriesOf(current_strategy, agent_plan, iteration)
        /\ Contents(iteration_results)
             = KeptContents(LastRound.trace, current_strategy, iteration, 1)

\* a broad round whose first and third calls raised and whose second and
\* fourth calls returned hits
C4_Witness ==
    /\ pc = "assess" /\ current_strategy = BROAD_SEARCH /\ vector_store = "rich"
    /\ LastRound.trace[1].raised /\ ~LastRound.trace[2].raised
    /\ LastRound.trace[3].raised /\ ~LastRound.trace[4].raised
    /\ Len(iteration_results) = 4

\* C5: _analyze_user_profile never raises: a missing or malformed age, weight,
\* gender, goal or health field is replaced by its default.
C5_ProfileNeverRaises ==
    ~(outcome.kind = "raised" /\ outcome.at = "profile")

\* C8: with max_iterations = 1 a run executes exactly one round: one
\* selection and search execution, one assessment, which stops the loop.
C8_SingleRound ==
    max_iterations = 1 =>
        /\ Len(rounds) <= 1
        /\ (PastLoop =>
              Len(rounds) = 1 /\ rounds[1].decided /\ rounds[1].stop)

\* a finished single-round run whose assessment did not meet the criteria
C8_Witness ==
    /\ max_iterations = 1 /\ pc = "done" /\ Len(rounds) = 1
    /\ ~quality_assessment.meets_criteria

\* the latest round is assessed and had no results
EmptyRoundAssessed ==
    rounds # <<>> /\ LastRound.decided /\ LastRound.count = 0

\* C9: the assessment of a round without results has overall_score,
\* relevance, coverage and diversity 0 and does not count as meeting the
\* criteria, whatever the cumulative results: the loop stops after it only
\* because of the iteration bound.
C9_EmptyRoundScoresZero ==
    EmptyRoundAssessed =>
        /\ RatEq(quality_assessment.overall_score, Zero)
        /\ RatEq(quality_assessment.relevance, Zero)
        /\ RatEq(quality_assessment.coverage, Zero)
        /\ RatEq(quality_assessment.diversity, Zero)
        /\ ~(quality_assessment.has_meets /\ quality_assessment.meets_criteria)
        /\ LastRound.stop = (LastRound.iteration >= max_iterations - 1)

\* an empty round assessed when earlier rounds had found results
C9_Witness ==
    EmptyRoundAssessed /\ search_results # <<>>

----------------------------------------------------------------------------
(* Properties of the selector and the stopping policy (SpecUnit) *)

\* C6: at iteration 0 the selector returns BroadSearch, for every plan and
\* every prior result list.
C6_FirstRoundIsBroad ==
    (ret.op = "select" /\ call.it = 0) => ret.value = BROAD_SEARCH

\* iteration 0 with three prior results that lack specificity
C6_Witness ==
    /\ ret.op = "select" /\ call.it = 0
    /\ Len(call.results) >= 3 /\ ResultsLackSpecificity(call.results)
    /\ ret.value = BROAD_SEARCH

\* C7: _should_stop_searching returns stop exactly when meets_criteria is
\* true, or iteration >= max_iterations - 1, or overall_score >= 0.9; an
\* assessment with overall_score 0.95 always stops.
C7_StopExactlyWhen ==
    ret.op = "should_stop" =>
        /\ ret.value =
              (\/ (call.qa.has_meets /\ call.qa.meets_criteria)
               \/ call.it >= max_iterations - 1
               \/ RatGeq(call.qa.overall_score, Rat(9, 10)))
        /\ (RatEq(call.qa.overall_score, Rat(95, 100)) => ret.value)

\* stop decided by the score alone, at exactly 0.9
C7_Witness ==
    /\ ret.op = "should_stop" /\ ret.value
    /\ RatEq(call.qa.overall_score, Rat(9, 10))
    /\ ~call.qa.meets_criteria /\ call.it < max_iterations - 1

----------------------------------------------------------------------------
(* Property of the agent memory (SpecMemory) *)

\* C10: each key of the memory holds at most 10 entries, namely the most
\* recently recorded ones of that key in recording order; so a record for one
\* key leaves the lists of the other keys as they were.
C10_SlidingWindow ==
    \A k \in AgentStrategy :
        LET kept == successful_strategies.lists[k]
            history == recorded[k]
        IN /\ Len(kept) <= 10
           /\ Len(kept) = Min(Len(history), 10)
           /\ \A j \in 1..Len(kept) :
                 kept[j] = history[Len(history) - Len(kept) + j]

\* a key that has dropped its two oldest entries next to a key never recorded
C10_Witness ==
    /\ pc = "memory"
    /\ \E k \in AgentStrategy : Len(recorded[k]) >= 12
    /\ \E k \in AgentStrategy : recorded[k] = <<>>

----------------------------------------------------------------------------
(* Further properties of the controller (Spec) *)

\* sum of the result counts of the rounds that have been assessed
RECURSIVE AssessedCount(_)
AssessedCount(rs) ==
    IF rs = <<>> THEN 0
    ELSE (IF Head(rs).decided THEN Head(rs).count ELSE 0) + AssessedCount(Tail(rs))

\* C11: a step either leaves search_results as it is or, when a round is
\* assessed, appends that round's results in order behind the entries already
\* there; so the length of search_results is the sum of the result counts of
\* the assessed rounds.
C11_ResultsOnlyAppended ==
    [][/\ \/ search_results' = search_results
          \/ pc = "assess" /\ search_results' = search_results \o iteration_results
       /\ Len(search_results') = AssessedCount(rounds')]_vars

\* a finished run of two rounds that both found results
C11_Witness ==
    /\ pc = "done" /\ Len(rounds) = 2
    /\ rounds[1].count > 0 /\ rounds[2].count > 0
    /\ Len(search_results) = rounds[1].count + rounds[2].count

\* no search call of the run raised
NoSearchCallRaised ==
    \A r \in 1..Len(rounds) :
        \A i \in 1..Len(rounds[r].trace) : ~rounds[r].trace[i].raised

\* the goal is weight_loss and every query is answered with 5 hits of
\* relevance 0.5: bare hits ("plain", exercise_type defaults to "general"),
\* hits of type "cardio", or hits of type "Beginner Strength" ("novice")
WeightLossHalfRelevance ==
    /\ GoalOf(user_data) = "weight_loss"
    /\ vector_store \in {"plain", "cardio", "novice"}
    /\ NoSearchCallRaised

\* C12 as stated: with goal weight_loss and 5 hits of relevance 0.5 per query,
\* round 0 uses BroadSearch and round 1 uses MultiAngleApproach or
\* TargetedSearch, whatever exercise_type the hits carry.
C12_SecondRoundMultiOrTargeted ==
    (WeightLossHalfRelevance /\ Len(rounds) >= 2) =>
        /\ rounds[1].strategy = BROAD_SEARCH
        /\ rounds[2].strategy \in {MULTI_ANGLE_APPROACH, TARGETED_SEARCH}

\* C12 as the code has it: round 0 uses BroadSearch and keeps 8 results; round
\* 1 uses TargetedSearch when the hits carry a generic exercise_type (or none)
\* and ProgressiveRefinement when they carry a specific one (average relevance
\* 0.5 lies between 0.4 and 0.7); never MultiAngleApproach or the plan cycle.
C12_SecondRoundByType ==
    (WeightLossHalfRelevance /\ Len(rounds) >= 2) =>
        /\ rounds[1].strategy = BROAD_SEARCH
        /\ rounds[1].count = 8
        /\ rounds[2].strategy =
              IF vector_store \in {"plain", "novice"} THEN TARGETED_SEARCH
              ELSE PROGRESSIVE_REFINEMENT

\* a second round over hits of type "cardio"
C12_Witness ==
    /\ WeightLossHalfRelevance /\ Len(rounds) >= 2 /\ vector_store = "cardio"
    /\ rounds[2].strategy = PROGRESSIVE_REFINEMENT

----------------------------------------------------------------------------
(* The controller with images: requests that come with no image, with an    *)
(* image file that exists or with a path that does not, served by a        *)
(* controller with or without a generation client.                         *)

InitVision ==
    /\ vector_store \in {"plain", "cardio"}
    /\ ai_client \in BOOLEAN
    /\ max_iterations \in 0..MaxIterations
    /\ reflection_mode = TRUE
    /\ user_data \in {WellFormed("weight_loss"), WellFormed("general")}
    /\ images \in {<<>>, <<Image(TRUE)>>, <<Image(FALSE)>>}
    /\ Fresh
    /\ call = NoCall
    /\ ret = NoCall
    /\ NoCaller

SpecVision == InitVision /\ [][Next]_vars

\* C14: without a generation client the visual analysis never raises: it
\* yields the empty string when no image is supplied and the "VISUAL ANALYSIS
\* SKIPPED" placeholder when images are supplied; planning, the loop and the
\* synthesis run and the run ends with a payload.
C14_UnconfiguredClient ==
    ~ai_client =>
        /\ pc # "raised"
        /\ (pc # "start" =>
              image_analysis = IF images = <<>> THEN EmptyText ELSE SkippedNoClient)
        /\ (pc = "done" =>
              /\ outcome.kind = "returned"
              /\ outcome.payload.recommendation # <<>>
              /\ (max_iterations >= 1 => Len(rounds) >= 1 /\ LastRound.decided))

\* a finished run with an image path that does not exist and no client
C14_Witness ==
    /\ ~ai_client /\ images = <<Image(FALSE)>> /\ pc = "done"
    /\ image_analysis = SkippedNoClient
    /\ Len(rounds) >= 1 /\ outcome.kind = "returned"

----------------------------------------------------------------------------
(* get_fallback_fitness_recommendation (mcp_client_cleaned.py): the caller  *)
(* starts generate_recommendation in a worker thread, waits for it with a  *)
(* bounded join and falls back to the synchronous recommendation.  The     *)
(* worker's steps are the steps of the controller above; the join may time *)
(* out at any point of the worker's progress.                              *)

controller == <<vector_store, ai_client, max_iterations, reflection_mode,
                successful_strategies, user_data, images, pc, image_analysis,
                user_profile, agent_plan, iteration, current_strategy,
                iteration_results, search_results, quality_assessment, rounds,
                outcome, recorded, call>>

\* a weight-loss request whose gender is None
NoGender ==
    UserData(PyInt(30), PyNone, PyInt(150), PyNumStr(70), PyStr("weight_loss"),
             PyText("", {}))

InitFallback ==
    /\ vector_store \in {"plain", "cardio"}
    /\ ai_client = FALSE
    /\ max_iterations = MaxIterations
    /\ reflection_mode = FALSE
    /\ user_data \in {WellFormed("weight_loss"), NoGender}
    /\ images = <<>>
    /\ Fresh
    /\ call = NoCall
    /\ ret = NoCall
    /\ enable_agentic \in BOOLEAN
    /\ search_available \in BOOLEAN
    /\ fallback_pc = "start"
    /\ thread = "unstarted"
    /\ result_queue = <<>>
    /\ fallback_return = NoReturn
    /\ join_timed_out = FALSE
    /\ alive_at_check = FALSE

FallbackReturn(kind, text) == [kind |-> kind, recommendation |-> text]

\* lines 112-175: the conversions of age and weight (no handler), then either
\* thread.start() and the join, or the non-agentic path
FallbackStart ==
    /\ fallback_pc = "start"
    /\ LET age == ToNumber(DictGet(user_data.age, PyInt(30)))
           weight == ToNumber(DictGet(user_data.weight, PyInt(150)))
       IN IF ~age.ok \/ ~weight.ok
          THEN /\ fallback_pc' = "raised"
               /\ fallback_return' = FallbackReturn("raised", <<>>)
               /\ UNCHANGED thread
          ELSE /\ fallback_pc' = IF enable_agentic THEN "join" ELSE "plain"
               /\ thread' = IF enable_agentic THEN "running" ELSE thread
               /\ UNCHANGED fallback_return
    /\ UNCHANGED <<controller, ret, enable_agentic, search_available, result_queue,
                   join_timed_out, alive_at_check>>

\* the worker runs generate_recommendation
WorkerStep == thread = "running" /\ Next

\* asyncio.new_event_loop() or set_event_loop() raises: the handler queues
\* the error
WorkerLoopFails ==
    /\ thread = "running" /\ pc = "start"
    /\ result_queue' = Append(result_queue, [status |-> "error", result |-> <<>>,
                                             late |-> join_timed_out])
    /\ thread' = "put"
    /\ UNCHANGED <<controller, ret, enable_agentic, search_available, fallback_pc,
                   fallback_return, join_timed_out, alive_at_check>>

\* result_queue.put(("success", result)) / result_queue.put(("error", str(e)));
\* `late` is history: the join had timed out before the put
WorkerPut ==
    /\ thread = "running" /\ pc \in {"done", "raised"}
    /\ result_queue' =
          Append(result_queue,
                 IF outcome.kind = "returned"
                 THEN [status |-> "success", result |-> outcome.payload.recommendation,
                       late |-> join_timed_out]
                 ELSE [status |-> "error", result |-> <<>>, late |-> join_timed_out])
    /\ thread' = "put"
    /\ UNCHANGED <<controller, ret, enable_agentic, search_available, fallback_pc,
                   fallback_return, join_timed_out, alive_at_check>>

\* finally: loop.close(); the thread ends
WorkerEnd ==
    /\ thread = "put"
    /\ thread' = "finished"
    /\ UNCHANGED <<controller, ret, enable_agentic, search_available, fallback_pc,
                   result_queue, fallback_return, join_timed_out, alive_at_check>>

\* thread.join(timeout=60) returns: the thread has ended, or the 60 seconds
\* have passed while it has not
JoinReturns ==
    /\ fallback_pc = "join"
    /\ join_timed_out' = (thread # "finished")
    /\ fallback_pc' = "check"
    /\ UNCHANGED <<controller, ret, enable_agentic, search_available, thread,
                   result_queue, fallback_return, alive_at_check>>

None == [some |-> FALSE, read |-> "none", result |-> <<>>, late |-> FALSE]

\* A run_agentic_in_thread that reads the queue without asking is_alive().
RunAgenticIgnoringAlive(alive, queue) ==
    IF queue # <<>>
    THEN [some |-> Head(queue).status = "success", read |-> Head(queue).status,
          result |-> Head(queue).result, late |-> Head(queue).late]
    ELSE None

\* what run_agentic_in_thread returns after the join: None for a thread that
\* is alive, for an empty queue and for a queued error
RunAgenticInThread(alive, queue) ==
    IF alive THEN None
    ELSE IF queue # <<>>
    THEN [some |-> Head(queue).status = "success", read |-> Head(queue).status,
          result |-> Head(queue).result, late |-> Head(queue).late]
    ELSE None

\* lines 177-192: is_alive(), the queue, `if agentic_result: return`
CheckAlive ==
    /\ fallback_pc = "check"
    /\ LET alive == thread # "finished"
           agentic_result == RunAgenticInThread(alive, result_queue)
       IN /\ alive_at_check' = alive
          /\ ret' = Result("run_agentic_in_thread", agentic_result)
          /\ result_queue' = IF agentic_result.read # "none"
                             THEN Tail(result_queue) ELSE result_queue
          /\ IF agentic_result.some /\ agentic_result.result # <<>>
             THEN /\ fallback_pc' = "returned"
                  /\ fallback_return' = FallbackReturn("agentic", agentic_result.result)
             ELSE /\ fallback_pc' = "sync"
                  /\ UNCHANGED fallback_return
    /\ UNCHANGED <<controller, enable_agentic, search_available, thread,
                   join_timed_out>>

\* lines 197-203: the synchronous fallback; its exception is caught by the
\* outer handler and the non-agentic path follows
SyncFallback ==
    /\ fallback_pc = "sync"
    /\ LET base == BaseRecommendation(user_data)
       IN IF base.raised
          THEN fallback_pc' = "plain" /\ UNCHANGED fallback_return
          ELSE /\ fallback_pc' = "returned"
               /\ fallback_return' = FallbackReturn("sync", base.value)
    /\ UNCHANGED <<controller, ret, enable_agentic, search_available, thread,
                   result_queue, join_timed_out, alive_at_check>>

\* lines 205-215: the synchronous fallback when a search client exists, the
\* basic recommendation otherwise or when the fallback raises
PlainFallback ==
    /\ fallback_pc = "plain"
    /\ LET base == BaseRecommendation(user_data)
       IN fallback_return' =
             IF search_available /\ ~base.raised
             THEN FallbackReturn("sync", base.value)
             ELSE FallbackReturn("basic", <<"Basic Fitness Recommendation">>)
    /\ fallback_pc' = "returned"
    /\ UNCHANGED <<controller, ret, enable_agentic, search_available, thread,
                   result_queue, join_timed_out, alive_at_check>>

NextFallback ==
    \/ FallbackStart
    \/ WorkerStep
    \/ WorkerLoopFails
    \/ WorkerPut
    \/ WorkerEnd
    \/ JoinReturns
    \/ CheckAlive
    \/ SyncFallback
    \/ PlainFallback

SpecFallback == InitFallback /\ [][NextFallback]_vars

GenericCount(results) ==
    Cardinality({i \in 1..Len(results) :
                   GeneralTermsIn(results[i].exercise_type) # {}})

RuleOf(plan, results, it) ==
    LET n == Len(results)
        total == SumRelevance(results)
    IN IF n < 3 THEN MULTI_ANGLE_APPROACH
       ELSE IF 10 * GenericCount(results) > 7 * n THEN TARGETED_SEARCH
       ELSE IF 10 * total > 4 * 100 * n /\ 10 * total < 7 * 100 * n
            THEN PROGRESSIVE_REFINEMENT
       ELSE plan.search_strategies[(it % Len(plan.search_strategies)) + 1]

\* C17: for iteration >= 1 the selector applies its rules in priority order:
\* fewer than 3 cumulative results gives MultiAngleApproach; otherwise more
\* than 70% generic exercise types gives TargetedSearch; otherwise an average
\* relevance strictly between 0.4 and 0.7 gives ProgressiveRefinement;
\* otherwise, and so for an average of exactly 0.4 or 0.7, the result is
\* plan.search_strategies[iteration mod len(search_strategies)].
C17_RulesInPriorityOrder ==
    (ret.op = "select" /\ pc = "unit" /\ call.it >= 1) =>
        /\ ret.value = RuleOf(call.plan, call.results, call.it)
        /\ (/\ Len(call.results) >= 3
            /\ 10 * GenericCount(call.results) <= 7 * Len(call.results)
            /\ SumRelevance(call.results) \in {40 * Len(call.results),
                                                70 * Len(call.results)})
           => ret.value =
                call.plan.search_strategies[
                    (call.it % Len(call.plan.search_strategies)) + 1]

\* four specific results whose average is exactly 0.4, in round 1 of a
\* weight-loss plan: the plan's second strategy is selected
C17_Witness ==
    /\ ret.op = "select" /\ pc = "unit" /\ call.it = 1
    /\ Len(call.results) = 4 /\ GenericCount(call.results) = 0
    /\ SumRelevance(call.results) = 40 * Len(call.results)
    /\ call.plan.search_strategies = <<BROAD_SEARCH, TARGETED_SEARCH>>
    /\ ret.value = TARGETED_SEARCH

----------------------------------------------------------------------------
(* The selector applied twice to the same arguments by a controller whose  *)
(* agent memory differs between the two applications.  self.search_history *)
(* is set to [] in __init__ and neither read nor written afterwards, so    *)
(* the agent memory is the only object state that can differ.              *)

\* the selections made so far, each with the memory it was made under
Selection(strategy) == [strategy |-> strategy, memory |-> successful_strategies]

InitSelect ==
    /\ vector_store = "empty"
    /\ ai_client = FALSE
    /\ max_iterations = MaxIterations
    /\ reflection_mode = FALSE
    /\ user_data = WellFormed("general")
    /\ images = <<>>
    /\ \E lists \in PastLists :
         /\ successful_strategies = PastMemory(lists)
         /\ recorded = lists
    /\ pc = "select"
    /\ Locals
    /\ call \in SelectCalls
    /\ ret = NoCall
    /\ NoCaller

\* current_strategy = self._select_optimal_strategy(agent_plan, search_results, iteration)
SelectStrategy ==
    /\ pc = "select" /\ Len(rounds) < 2
    /\ LET strategy == SelectOptimalStrategy(call.plan, call.results, call.it)
       IN /\ current_strategy' = strategy
          /\ ret' = Result("select", strategy)
          /\ rounds' = Append(rounds, Selection(strategy))
    /\ UNCHANGED <<vector_store, ai_client, max_iterations, reflection_mode,
                   successful_strategies, user_data, images, pc, image_analysis,
                   user_profile, agent_plan, iteration, iteration_results,
                   search_results, quality_assessment, outcome, recorded, call,
                   caller>>

\* self._update_agent_memory(...) between the two selections
Remember ==
    /\ pc = "select" /\ Len(rounds) = 1
    /\ successful_strategies = rounds[1].memory
    /\ \E k \in AgentStrategy, inp \in RecordInputs :
         /\ successful_strategies' =
                UpdateAgentMemory(successful_strategies, k, inp.results, inp.quality)
         /\ recorded' = [recorded EXCEPT ![k] =
                            Append(@, MemoryEntry(inp.results, inp.quality))]
    /\ UNCHANGED <<vector_store, ai_client, max_iterations, reflection_mode,
                   user_data, images, pc, image_analysis, user_profile, agent_plan,
                   iteration, current_strategy, iteration_results, search_results,
                   quality_assessment, rounds, outcome, call, ret, caller>>

NextSelect ==
    \/ SelectStrategy
    \/ Remember

SpecSelect == InitSelect /\ [][NextSelect]_vars

----------------------------------------------------------------------------
(* The agent memory during a run of the controller (Spec) *)

\* the rounds of the run on which the stopping policy answered continue and
\* which ran under strategy k, in order
ContinuedUnder(k) ==
    SelectSeq(rounds, LAMBDA r : r.decided /\ ~r.stop /\ r.strategy = k)

RECURSIVE EntryCount(_, _)
EntryCount(memory, keys) ==
    IF keys = <<>> THEN 0
    ELSE Len(memory.lists[Head(keys)]) + EntryCount(memory, Tail(keys))

\* C18: the agent memory holds one entry for a round, under that round's
\* strategy, exactly when the stopping policy answered continue for it; the
\* round on which the loop stops is not recorded, so past the loop a run of
\* R >= 1 rounds has added R - 1 entries.
C18_RecordedExactlyOnContinue ==
    /\ \A k \in AgentStrategy :
         /\ Len(successful_strategies.lists[k]) = Len(ContinuedUnder(k))
         /\ \A j \in 1..Len(ContinuedUnder(k)) :
              successful_strategies.lists[k][j].result_count = ContinuedUnder(k)[j].count
         /\ (k \in Range(successful_strategies.order) <=> ContinuedUnder(k) # <<>>)
    /\ (PastLoop /\ Len(rounds) >= 1) =>
          /\ LastRound.decided /\ LastRound.stop
          /\ EntryCount(successful_strategies, KeyOrder) = Len(rounds) - 1

\* a finished run of two rounds: the first is in the memory under the
\* strategy it ran, the second, on which the loop stopped, is not
C18_Witness ==
    /\ pc = "done" /\ Len(rounds) = 2
    /\ ~rounds[1].stop /\ rounds[2].stop
    /\ rounds[2].strategy # rounds[1].strategy
    /\ Len(successful_strategies.lists[rounds[1].strategy]) = 1
    /\ successful_strategies.lists[rounds[2].strategy] = <<>>

----------------------------------------------------------------------------
(* The quality assessment of a round of the controller (Spec) *)

\* 0.4 * r + 0.3 * c + 0.3 * d
Weighted(r, c, d) ==
    Rat(4 * r.num * c.den * d.den + 3 * c.num * r.den * d.den + 3 * d.num * r.den * c.den,
        10 * r.den * c.den * d.den)

\* the last round has been assessed and had found results; search_results
\* then holds the earlier cumulative results followed by iteration_results
NonEmptyRoundAssessed ==
    /\ rounds # <<>> /\ LastRound.decided /\ iteration_results # <<>>

\* C19: for a non-empty round the assessment has relevance = mean
\* relevance_score of the round's new results only, coverage = min(distinct
\* exercise types / number of sub-goals, 1) and diversity = min((distinct
\* target muscles + distinct difficulties) / 10, 1) over the earlier cumulative
\* and the new results together, overall = 0.4 relevance + 0.3 coverage +
\* 0.3 diversity, and meets_criteria = (overall >= 0.7).
C19_AssessmentFormula ==
    NonEmptyRoundAssessed =>
        LET qa == quality_assessment
            g == Len(agent_plan.sub_goals)
            types == Cardinality(ExerciseTypes(search_results))
            variety == Cardinality(Muscles(search_results))
                       + Cardinality(Difficulties(search_results))
        IN /\ Lowest(qa.relevance) =
                 Lowest(Rat(SumRelevance(iteration_results), 100 * Len(iteration_results)))
           /\ Lowest(qa.coverage) = Lowest(IF types >= g THEN Rat(1, 1) ELSE Rat(types, g))
           /\ Lowest(qa.diversity) =
                 Lowest(IF variety >= 10 THEN Rat(1, 1) ELSE Rat(variety, 10))
           /\ Lowest(qa.overall_score) =
                 Lowest(Weighted(Lowest(qa.relevance), Lowest(qa.coverage),
                                 Lowest(qa.diversity)))
           /\ qa.has_meets
           /\ qa.meets_criteria = (10 * qa.overall_score.num >= 7 * qa.overall_score.den)

\* a second round whose mean relevance differs from that of the cumulative
\* results and whose exercise types are fewer than the cumulative ones
C19_Witness ==
    /\ NonEmptyRoundAssessed /\ Len(rounds) = 2
    /\ SumRelevance(iteration_results) * Len(search_results)
         # SumRelevance(search_results) * Len(iteration_results)
    /\ Cardinality(ExerciseTypes(search_results))
         > Cardinality(ExerciseTypes(iteration_results))
    /\ RatGt(Rat(1, 1), quality_assessment.coverage)

----------------------------------------------------------------------------
(* The range of the scores of a run of the controller (Spec) *)

InUnitInterval(r) == RatGeq(r, Zero) /\ RatGeq(Rat(1, 1), r)

\* C20 as stated: whatever distances the search capability returns, every
\* SearchResult has a relevance_score in [0,1], and so have the scores of
\* every quality assessment and the final confidence.
C20_ScoresInUnitInterval ==
    /\ \A i \in 1..Len(iteration_results) :
         iteration_results[i].relevance_score \in 0..100
    /\ \A i \in 1..Len(search_results) :
         search_results[i].relevance_score \in 0..100
    /\ (rounds # <<>> /\ rounds[1].decided) =>
          /\ InUnitInterval(quality_assessment.overall_score)
          /\ InUnitInterval(quality_assessment.relevance)
          /\ InUnitInterval(quality_assessment.coverage)
          /\ InUnitInterval(quality_assessment.diversity)
    /\ pc = "done" => InUnitInterval(outcome.payload.agent_confidence)

----------------------------------------------------------------------------
(* The relevance of a result against the distance of its hit (Spec) *)

\* the hits the controller's store returns, over the queries of a round
StoreHits == UNION {Range(StoreAnswer(vector_store, i)) : i \in 1..8}

\* the default distance of the search that produced a result, by its source
DefaultDistanceOf(result) ==
    CASE result.source = "chromadb" -> 50
      [] result.source = "chromadb_targeted" -> 60
      [] OTHER -> 55

\* C21 as stated: a result's relevance_score is 1 - distance whenever its hit
\* came with a distance, a distance of exactly 0 included; the default
\* distance of the strategy is used only for a hit without a distance.
C21_RelevanceFromDistance ==
    \A i \in 1..Len(search_results) :
        \A hit \in StoreHits :
            hit.content = search_results[i].content =>
                search_results[i].relevance_score =
                    100 - (IF hit.has_distance THEN hit.distance
                           ELSE DefaultDistanceOf(search_results[i]))

----------------------------------------------------------------------------
(* The targeted search on its own, for iteration indexes inside and past    *)
(* the plan's sub-goals (a controller whose AGENTIC_RAG_MAX_ITERATIONS      *)
(* exceeds the number of sub-goals reaches the latter).                     *)

\* largest iteration index handed to the targeted search
MaxIndex == 7

TargetedCalls ==
    {[op |-> "targeted", plan |-> p, it |-> i, responses |-> rs]
       : p \in UnitPlans, i \in 0..MaxIndex,
         rs \in RoundResponses(vector_store, <<1>>)}

InitSearch ==
    /\ vector_store \in Stores
    /\ ai_client = FALSE
    /\ max_iterations = MaxIndex + 1
    /\ reflection_mode = FALSE
    /\ user_data = WellFormed("general")
    /\ images = <<>>
    /\ successful_strategies = EmptyMemory
    /\ recorded = [k \in AgentStrategy |-> <<>>]
    /\ pc = "search"
    /\ Locals
    /\ call \in TargetedCalls
    /\ ret = NoCall
    /\ NoCaller

\* self._execute_targeted_search(plan, user_profile, iteration)
ApplyTargetedSearch ==
    /\ pc = "search" /\ call.op = "targeted" /\ ret.op = "none"
    /\ ret' = Result("targeted",
                     ExecuteTargetedSearch(call.plan, call.it, call.responses))
    /\ UNCHANGED <<vector_store, ai_client, max_iterations, reflection_mode,
                   successful_strategies, user_data, images, pc, image_analysis,
                   user_profile, agent_plan, iteration, current_strategy,
                   iteration_results, search_results, quality_assessment, rounds,
                   outcome, recorded, call, caller>>

SpecSearch == InitSearch /\ [][ApplyTargetedSearch]_vars

\* C22 as stated: the targeted search issues exactly one search for every
\* iteration index, for the sub-goal at that index or, when the index is past
\* the sub-goals, for the sub-goal at index 0, and keeps at most 3 hits.
C22_TargetedOneSearchPerRound ==
    ret.op = "targeted" =>
        /\ Len(ret.value.trace) = 1
        /\ ret.value.trace[1].query =
              SubGoalSearchTerm(call.plan.sub_goals[
                  IF call.it < Len(call.plan.sub_goals) THEN call.it + 1 ELSE 1])
        /\ Len(ret.value.results) <= 3

----------------------------------------------------------------------------
(* Quotients of a finished run of the controller (Spec) *)

\* the value 0.0, as opposed to a quotient by zero
IsZero(r) == r.num = 0 /\ r.den # 0

\* C23: no stage divides by zero on an empty result set.  A run that returns
\* with zero accumulated results has overall_quality, goal_coverage and
\* confidence 0.0 and, with reflection on, search_efficiency 0; no run ends in
\* a division error; with results, confidence = 0.6 * overall_quality +
\* 0.4 * goal_coverage.
C23_NoDivisionByZero ==
    /\ outcome.error # "ZeroDivisionError"
    /\ pc = "done" =>
          LET qm == outcome.payload.agentic_metadata.quality_metrics
          IN /\ qm.overall_quality.den # 0 /\ qm.goal_coverage.den # 0
             /\ qm.confidence.den # 0
             /\ outcome.payload.agentic_insights.search_efficiency.den # 0
             /\ search_results = <<>> =>
                   /\ IsZero(qm.overall_quality) /\ IsZero(qm.goal_coverage)
                   /\ IsZero(qm.confidence)
                   /\ IsZero(outcome.payload.agent_confidence)
                   /\ IsZero(outcome.payload.agentic_insights.search_efficiency)
             /\ search_results # <<>> =>
                   Lowest(qm.confidence) =
                       Lowest(Rat(6 * qm.overall_quality.num * qm.goal_coverage.den
                                    + 4 * qm.goal_coverage.num * qm.overall_quality.den,
                                  10 * qm.overall_quality.den * qm.goal_coverage.den))

\* a run with reflection on whose rounds found nothing has returned
C23_Witness ==
    /\ pc = "done" /\ Len(rounds) >= 2 /\ search_results = <<>>
    /\ outcome.payload.has_agentic_insights
    /\ IsZero(outcome.payload.agent_confidence)

----------------------------------------------------------------------------
(* The exercise list in the recommendation of a finished run (Spec) *)

\* the exercise names printed in a text: the segment behind each "- "
ListedNames(text) == {text[i + 1] : i \in {j \in 1..(Len(text) - 1) : text[j] = "- "}}

\* C24 as stated: the exercise list in the recommendation is built only from
\* accumulated results with relevance_score >= 0.7: a result below 0.7 never
\* appears in it.
C24_ListOnlyHighQuality ==
    pc = "done" =>
        \A i \in 1..Len(search_results) :
            search_results[i].content \in ListedNames(outcome.payload.recommendation)
                => search_results[i].relevance_score >= 70

----------------------------------------------------------------------------
(* The reflection and the metadata of a finished run (Spec) *)

\* C25 as stated: planning_effectiveness is true exactly when the number of
\* rounds the loop executed is at most plan.expected_iterations.
C25_PlanningEffectiveness ==
    (pc = "done" /\ outcome.payload.has_agentic_insights) =>
        outcome.payload.agentic_insights.planning_effectiveness
            = (Len(rounds) <= agent_plan.expected_iterations)

----------------------------------------------------------------------------
(* The strategy report of a controller whose memory already holds entries   *)
(* and records further rounds.                                             *)

\* self._analyze_successful_strategies(), with the memory it was taken from
AnalyzeStrategies ==
    /\ pc = "memory"
    /\ ret' = [op |-> "analyze",
               value |-> AnalyzeSuccessfulStrategies(successful_strategies),
               memory |-> successful_strategies]
    /\ ret' # ret
    /\ UNCHANGED <<vector_store, ai_client, max_iterations, reflection_mode,
                   successful_strategies, user_data, images, pc, image_analysis,
                   user_profile, agent_plan, iteration, current_strategy,
                   iteration_results, search_results, quality_assessment, rounds,
                   outcome, recorded, call, caller>>

NextReport ==
    \/ Record
    \/ AnalyzeStrategies

SpecReport == InitMemory /\ [][NextReport]_vars

\* C26: the strategy report names a strategy key present in the memory whose
\* entries have the highest sum of quality_score over all keys present; for an
\* empty memory it gives the initial-recommendation message and names no
\* strategy.
C26_ReportNamesBestStrategy ==
    ret.op = "analyze" =>
        IF ret.memory.order = <<>>
        THEN /\ ret.value.named = NoVal
             /\ ret.value.text =
                   <<"Initial recommendation - building strategy intelligence.">>
        ELSE /\ ret.value.named \in Range(ret.memory.order)
             /\ \A k \in Range(ret.memory.order) :
                  RatGeq(SumQuality(ret.memory.lists[ret.value.named]),
                         SumQuality(ret.memory.lists[k]))
             /\ ret.value.text[2] = ret.value.named

\* a memory of several keys whose best key is not the one it was first given
C26_Witness ==
    /\ ret.op = "analyze" /\ Len(ret.memory.order) >= 2
    /\ ret.value.named # Head(ret.memory.order)
    /\ RatGt(SumQuality(ret.memory.lists[ret.value.named]),
             SumQuality(ret.memory.lists[Head(ret.memory.order)]))

----------------------------------------------------------------------------
(* Runs of the controller in which no search finds anything (Spec) *)

\* the store has no match for any query, or every search call so far raised
NothingFound ==
    \/ vector_store = "empty"
    \/ \A r \in 1..Len(rounds) :
         \A i \in 1..Len(rounds[r].trace) : rounds[r].trace[i].raised

\* C27: when no query finds anything, a run with max_iterations = N >= 1
\* executes exactly N rounds, BroadSearch in round 0 and MultiAngleApproach in
\* every later round, every round scores 0.0, and past the loop the run has
\* zero accumulated results and N - 1 memory entries.
C27_FruitlessRunUsesAllRounds ==
    NothingFound =>
        /\ \A r \in 1..Len(rounds) :
             rounds[r].strategy = IF r = 1 THEN BROAD_SEARCH ELSE MULTI_ANGLE_APPROACH
        /\ search_results = <<>>
        /\ (rounds # <<>> /\ rounds[1].decided) => IsZero(quality_assessment.overall_score)
        /\ \A k \in AgentStrategy :
             \A j \in 1..Len(successful_strategies.lists[k]) :
                 IsZero(successful_strategies.lists[k][j].quality_score)
        /\ (PastLoop /\ max_iterations >= 1) =>
              /\ Len(rounds) = max_iterations
              /\ \A r \in 1..Len(rounds) : rounds[r].decided
              /\ EntryCount(successful_strategies, KeyOrder) = max_iterations - 1

\* a finished run of the largest number of rounds over a store with matches,
\* every call of which raised
C27_Witness ==
    /\ pc = "done" /\ NothingFound /\ vector_store = "rich"
    /\ max_iterations = MaxIterations /\ Len(rounds) = MaxIterations
    /\ LastRound.strategy = MULTI_ANGLE_APPROACH
    /\ \A r \in 1..Len(rounds) : rounds[r].trace # <<>>

----------------------------------------------------------------------------
(* The stopping rules against the assessments of a run (Spec) *)

\* the rounds assessed so far; quality_assessment is that of the last of them
DecidedRounds == SelectSeq(rounds, LAMBDA r : r.decided)

\* C28: whenever the assessment of a round has overall_score >= 0.9 its
\* meets_criteria is true, so a round on which the loop stops is one on which
\* meets_criteria is true or the iteration limit is reached: the 0.9 rule
\* never stops a round the other two rules would have continued.
C28_HighScoreAlreadyMeets ==
    DecidedRounds # <<>> =>
        LET qa == quality_assessment
            d == DecidedRounds[Len(DecidedRounds)]
        IN /\ RatGeq(qa.overall_score, Rat(9, 10)) => (qa.has_meets /\ qa.meets_criteria)
           /\ d.stop => \/ qa.has_meets /\ qa.meets_criteria
                        \/ d.iteration >= max_iterations - 1

\* a round before the last allowed one scored at least 0.9 and stopped the loop
C28_Witness ==
    /\ DecidedRounds # <<>>
    /\ RatGeq(quality_assessment.overall_score, Rat(9, 10))
    /\ quality_assessment.meets_criteria
    /\ LastRound.decided /\ LastRound.stop
    /\ LastRound.iteration < max_iterations - 1

\* C29 as stated: iterations_used in the final payload is the number of rounds
\* the loop executed, between 0 and max_iterations, and strategies_employed is
\* empty exactly when no round was executed.
C29_IterationsUsedCountsRounds ==
    pc = "done" =>
        /\ outcome.payload.iterations_used = Len(rounds)
        /\ outcome.payload.iterations_used \in 0..max_iterations
        /\ (outcome.payload.strategies_employed = <<>>) <=> (Len(rounds) = 0)

----------------------------------------------------------------------------
(* The plan of a run whose visual analysis degraded (SpecVision) *)

\* the profile and the plan have been made
Planned == pc \notin {"start", "raised"} \/ (pc = "raised" /\ outcome.at = "synthesis")

\* C30 as stated: a visual analysis that degraded to a 'VISUAL ANALYSIS
\* SKIPPED: ...' string, whatever error text it carries, gives the same
\* visual-insight flags and the same plan (sub_goals and search_strategies) as
\* an empty visual analysis.
C30_DegradedAnalysisAddsNothing ==
    (Planned /\ "skipped" \in image_analysis.terms) =>
        LET bare == AnalyzeUserProfile(user_data, EmptyText).value
            plan == CreateStrategicPlan(bare, max_iterations)
        IN /\ user_profile.visual_assessment = bare.visual_assessment
           /\ agent_plan.sub_goals = plan.sub_goals
           /\ agent_plan.search_strategies = plan.search_strategies

====
